---------------------------- MODULE Spec2Model ----------------------------
(***************************************************************************)
(* favfetch: the PNG codec (parsePNG / encodePNG), the analyzer            *)
(* (analyzeRGBA), the compositor (flattenRGBA) and the processing step of  *)
(* the request handler of src/api/favfetch.js.                             *)
(*                                                                         *)
(* The file holds two generations of the same program one after the other: *)
(* lines 1-612 (shrink-and-center compositor, dark colour #1f1f1f) and     *)
(* lines 615-1175 (full-bleed compositor, dark colour #000000).  The codec *)
(* and the analyzer are textually identical in both; the variable impl     *)
(* says which generation serves the request.                               *)
(*                                                                         *)
(* Buffers are sequences of bytes (0..255), 1-based here, 0-based in the   *)
(* source: buf[k] of the source is buf[k+1] here.                          *)
(*                                                                         *)
(* Floating point: the analyzer's luminance 0.2126 r + 0.7152 g + 0.0722 b *)
(* is kept as the exact integer 2126 r + 7152 g + 722 b (luminance times   *)
(* 10000); the double computed by the code differs from it by less than    *)
(* 1e-13.  The compositor's Math.round(r a + bg (1 - a)) with a = alpha /  *)
(* 255 is the rounding of k / 255 for the integer k = r alpha +            *)
(* bg (255 - alpha); k / 255 is never within 1/510 of a half, so the       *)
(* double rounds as the exact quotient does.                               *)
(***************************************************************************)
EXTENDS Integers, Sequences, FiniteSets, TLC

(***************************************************************************)
(* Bytes and 32-bit words                                                  *)
(***************************************************************************)
\* x ^ y on 4-bit values
NibbleXor ==
  [a \in 0..15 |-> [b \in 0..15 |->
      ((a + b) % 2)
    + 2 * (((a \div 2) + (b \div 2)) % 2)
    + 4 * (((a \div 4) + (b \div 4)) % 2)
    + 8 * (((a \div 8) + (b \div 8)) % 2)]]

\* x ^ y on bytes
Xor8(a, b) ==
  NibbleXor[a % 16][b % 16] + 16 * NibbleXor[a \div 16][b \div 16]

\* A 32-bit unsigned word (the >>> 0 view of a JavaScript bitwise result) is
\* kept as its four bytes, most significant first: the values reach 2^32 - 1.
Xor32(u, v) ==
  << Xor8(u[1], v[1]), Xor8(u[2], v[2]), Xor8(u[3], v[3]), Xor8(u[4], v[4]) >>

\* c >>> 1
Shr1(u) ==
  << u[1] \div 2,
     (u[1] % 2) * 128 + u[2] \div 2,
     (u[2] % 2) * 128 + u[3] \div 2,
     (u[3] % 2) * 128 + u[4] \div 2 >>

\* c >>> 8
Shr8(u) == << 0, u[1], u[2], u[3] >>

WordOfByte(b) == << 0, 0, 0, b >>

ALL_ONES == << 255, 255, 255, 255 >>      \* 0xffffffff

\* Buffer.writeUInt32BE of a number below 2^31
writeUInt32BE(n) ==
  << (n \div 16777216) % 256, (n \div 65536) % 256, (n \div 256) % 256, n % 256 >>

\* buf.slice(from, to) with 0-based from (inclusive) and to (exclusive)
Slice(buf, from, to) ==
  IF to <= from THEN << >> ELSE SubSeq(buf, from + 1, to)

\* (the streams offered to the decoder keep every length field below 2^31)
readUInt32BE(buf, offset) ==
    buf[offset + 1] * 16777216 + buf[offset + 2] * 65536
  + buf[offset + 3] * 256 + buf[offset + 4]

\* buf[k] of the source: undefined (here -1) past the end
UNDEFINED == -1

ByteAt(buf, k) == IF k < Len(buf) THEN buf[k + 1] ELSE UNDEFINED

(***************************************************************************)
(* CRC-32 and chunk framing                                                *)
(***************************************************************************)
CRC_POLY == << 237, 184, 131, 32 >>      \* 0xedb88320

RECURSIVE CrcTableEntry(_, _)
CrcTableEntry(c, k) ==
  IF k = 0 THEN c
  ELSE CrcTableEntry(IF c[4] % 2 = 1 THEN Xor32(CRC_POLY, Shr1(c)) ELSE Shr1(c),
                     k - 1)

CRC_TABLE == [i \in 0..255 |-> CrcTableEntry(WordOfByte(i), 8)]

\* the loop of crc32 over buf[lo..hi], entered with c.  The range is halved
\* rather than walked, and the first half is looked at before the second is
\* entered, so that TLC computes it there and the evaluation stays shallow.
RECURSIVE CrcLoop(_, _, _, _)
CrcLoop(buf, lo, hi, c) ==
  IF lo > hi THEN c
  ELSE IF lo = hi THEN Xor32(CRC_TABLE[Xor8(c[4], buf[lo])], Shr8(c))
  ELSE LET mid == (lo + hi) \div 2
           first == CrcLoop(buf, lo, mid, c)
       IN  IF Len(first) = 4 THEN CrcLoop(buf, mid + 1, hi, first) ELSE first

\* the four bytes of the CRC, most significant first
\* a variant of the checksum below without the final ^ 0xffffffff
crc32NoFinalXor(buf) == CrcLoop(buf, 1, Len(buf), ALL_ONES)

crc32(buf) == Xor32(CrcLoop(buf, 1, Len(buf), ALL_ONES), ALL_ONES)

\* Buffer.from(typeStr, 'ascii') for the chunk types the program names
AsciiOf ==
  [ IHDR |-> <<73, 72, 68, 82>>,
    PLTE |-> <<80, 76, 84, 69>>,
    tRNS |-> <<116, 82, 78, 83>>,
    IDAT |-> <<73, 68, 65, 84>>,
    IEND |-> <<73, 69, 78, 68>>,
    tEXt |-> <<116, 69, 88, 116>> ]

\* a variant of the chunk writer below whose length field counts the type too
makeChunkLongLength(typeStr, dataBuf) ==
  LET typeBuf  == AsciiOf[typeStr]
      lenBuf   == writeUInt32BE(Len(dataBuf) + 4)
      crcInput == typeBuf \o dataBuf
      crcBuf   == crc32(crcInput)
  IN  lenBuf \o typeBuf \o dataBuf \o crcBuf

makeChunk(typeStr, dataBuf) ==
  LET typeBuf  == AsciiOf[typeStr]
      lenBuf   == writeUInt32BE(Len(dataBuf))
      crcInput == typeBuf \o dataBuf
      crcBuf   == crc32(crcInput)       \* crcBuf.writeUInt32BE(crc, 0)
  IN  lenBuf \o typeBuf \o dataBuf \o crcBuf

PNG_SIG == <<137, 80, 78, 71, 13, 10, 26, 10>>

(***************************************************************************)
(* zlib.  deflateSync / inflateSync are the platform's; they are modelled  *)
(* on the zlib container with one final stored block: header 78 01, block  *)
(* header 01, LEN and NLEN little-endian, the bytes, Adler-32 big-endian.  *)
(* Every such stream is one inflateSync accepts and inflates to the bytes  *)
(* stored in it; inflateSync throws on a stream that is cut short or whose *)
(* header, length pair or checksum is wrong.                               *)
(***************************************************************************)
ADLER_MOD == 65521

\* the sums <<a, b>> of Adler-32 over buf[lo..hi]
RECURSIVE AdlerLoop(_, _, _, _)
AdlerLoop(buf, lo, hi, ab) ==
  IF lo > hi THEN ab
  ELSE IF lo = hi THEN
    << (ab[1] + buf[lo]) % ADLER_MOD, (ab[2] + ab[1] + buf[lo]) % ADLER_MOD >>
  ELSE LET mid == (lo + hi) \div 2
           first == AdlerLoop(buf, lo, mid, ab)
       IN  IF Len(first) = 2 THEN AdlerLoop(buf, mid + 1, hi, first) ELSE first

\* the four bytes of the checksum, most significant first
adler32(buf) ==
  LET ab == AdlerLoop(buf, 1, Len(buf), <<1, 0>>)
  IN  << ab[2] \div 256, ab[2] % 256, ab[1] \div 256, ab[1] % 256 >>

deflateSync(raw) ==
  LET n == Len(raw)
  IN  <<120, 1, 1, n % 256, n \div 256, (65535 - n) % 256, (65535 - n) \div 256>>
      \o raw \o adler32(raw)

InflateThrows == [throws |-> TRUE]

inflateSync(z) ==
  IF Len(z) < 11 THEN InflateThrows
  ELSE IF z[1] # 120 \/ (z[1] * 256 + z[2]) % 31 # 0 THEN InflateThrows
  ELSE IF z[3] # 1 THEN InflateThrows
  ELSE LET n    == z[4] + 256 * z[5]
           nlen == z[6] + 256 * z[7]
       IN  IF n + nlen # 65535 THEN InflateThrows
           ELSE IF Len(z) < 7 + n + 4 THEN InflateThrows
           ELSE LET data == Slice(z, 7, 7 + n)
                IN  IF Slice(z, 7 + n, 7 + n + 4) # adler32(data) THEN InflateThrows
                    ELSE [throws |-> FALSE, data |-> data]

(***************************************************************************)
(* encodePNG                                                               *)
(***************************************************************************)
\* rgbaBuf.copy(raw, dstRow + 1, srcRow, srcRow + width * 4): the bytes the
\* source holds in that range, the rest of the row left at Buffer.alloc's 0
RowOf(rgbaBuf, width, y) ==
  [i \in 1..(width * 4) |->
     IF y * width * 4 + i <= Len(rgbaBuf) THEN rgbaBuf[y * width * 4 + i] ELSE 0]

\* a variant of the scanlines below that marks each row as filtered by Sub
RawScanlinesSub(rgbaBuf, width, height) ==
  LET rowSize == 1 + width * 4
  IN  [j \in 1..(rowSize * height) |->
         LET y == (j - 1) \div rowSize
             i == (j - 1) % rowSize
         IN  IF i = 0 THEN 1 ELSE RowOf(rgbaBuf, width, y)[i]]

\* raw: for each row the filter byte 0, then the row
RawScanlines(rgbaBuf, width, height) ==
  LET rowSize == 1 + width * 4
  IN  [j \in 1..(rowSize * height) |->
         LET y == (j - 1) \div rowSize
             i == (j - 1) % rowSize
         IN  IF i = 0 THEN 0 ELSE RowOf(rgbaBuf, width, y)[i]]

IhdrData(width, height, bitDepth, colorType, compression, filter, interlace) ==
  writeUInt32BE(width) \o writeUInt32BE(height)
  \o <<bitDepth, colorType, compression, filter, interlace>>

encodePNG(rgbaBuf, width, height) ==
  LET raw        == RawScanlines(rgbaBuf, width, height)
      compressed == deflateSync(raw)
      ihdr       == IhdrData(width, height, 8, 6, 0, 0, 0)
      ihdrChunk  == makeChunk("IHDR", ihdr)
      idatChunk  == makeChunk("IDAT", compressed)
      iendChunk  == makeChunk("IEND", << >>)
  IN  PNG_SIG \o ihdrChunk \o idatChunk \o iendChunk


(***************************************************************************)
(* parsePNG                                                                *)
(***************************************************************************)
\* what parsePNG returns in place of an image (null)
NULL == [ok |-> FALSE]

\* buf.toString('ascii', from, to): each byte with its highest bit unset
AsciiString(buf, from, to) == [i \in 1..(to - from) |-> buf[from + i] % 128]

NoChunks ==
  [ threw |-> FALSE, ended |-> FALSE,
    ihdr |-> [present |-> FALSE],
    plte |-> [present |-> FALSE],
    trns |-> [present |-> FALSE],
    idat |-> << >> ]

\* the while loop over the chunks; threw: readUInt32BE(data, ..) ran past the
\* end of an IHDR's data and the RangeError left the loop for the catch
RECURSIVE ChunkLoop(_, _, _)
ChunkLoop(buf, offset, st) ==
  IF ~(offset < Len(buf)) THEN st
  ELSE IF offset + 8 > Len(buf) THEN st
  ELSE
    LET len       == readUInt32BE(buf, offset)
        type      == AsciiString(buf, offset + 4, offset + 8)
        dataStart == offset + 8
        dataEnd   == dataStart + len
    IN  IF dataEnd + 4 > Len(buf) THEN st
        ELSE
          LET data == Slice(buf, dataStart, dataEnd)
              next == dataEnd + 4
          IN  IF type = AsciiOf["IHDR"] THEN
                IF Len(data) < 8 THEN [st EXCEPT !.threw = TRUE]
                ELSE ChunkLoop(buf, next,
                       [st EXCEPT !.ihdr =
                          [ present     |-> TRUE,
                            width       |-> readUInt32BE(data, 0),
                            height      |-> readUInt32BE(data, 4),
                            bitDepth    |-> ByteAt(data, 8),
                            colorType   |-> ByteAt(data, 9),
                            compression |-> ByteAt(data, 10),
                            filter      |-> ByteAt(data, 11),
                            interlace   |-> ByteAt(data, 12) ]])
              ELSE IF type = AsciiOf["PLTE"] THEN
                ChunkLoop(buf, next,
                          [st EXCEPT !.plte = [present |-> TRUE, data |-> data]])
              ELSE IF type = AsciiOf["tRNS"] THEN
                ChunkLoop(buf, next,
                          [st EXCEPT !.trns = [present |-> TRUE, data |-> data]])
              ELSE IF type = AsciiOf["IDAT"] THEN
                ChunkLoop(buf, next, [st EXCEPT !.idat = st.idat \o data])
              ELSE IF type = AsciiOf["IEND"] THEN
                [st EXCEPT !.ended = TRUE]
              ELSE ChunkLoop(buf, next, st)

Abs(n) == IF n < 0 THEN -n ELSE n

\* a variant of the predictor below that prefers the byte above-left on a tie
paethCornerFirst(a, b, c) ==
  LET p  == a + b - c
      pa == Abs(p - a)
      pb == Abs(p - b)
      pc == Abs(p - c)
  IN  IF pc <= pa /\ pc <= pb THEN c
      ELSE IF pa <= pb THEN a
      ELSE b

paeth(a, b, c) ==
  LET p  == a + b - c
      pa == Abs(p - a)
      pb == Abs(p - b)
      pc == Abs(p - c)
  IN  IF pa <= pb /\ pa <= pc THEN a
      ELSE IF pb <= pc THEN b
      ELSE c

\* the filter loops of one scanline: cur holds the bytes copied from raw, and
\* positions below i are already reconstructed
RECURSIVE Unfilter(_, _, _, _, _)
Unfilter(filterType, cur, prevLine, bytesPerPixel, i) ==
  IF i > Len(cur) THEN cur
  ELSE
    LET a == IF i - bytesPerPixel >= 1 THEN cur[i - bytesPerPixel] ELSE 0
        b == prevLine[i]
        c == IF i - bytesPerPixel >= 1 THEN prevLine[i - bytesPerPixel] ELSE 0
        v == CASE filterType = 1 -> (cur[i] + a) % 256
               [] filterType = 2 -> (cur[i] + b) % 256
               [] filterType = 3 -> (cur[i] + ((a + b) \div 2)) % 256
               [] filterType = 4 -> (cur[i] + paeth(a, b, c)) % 256
               [] OTHER          -> cur[i]
    IN  Unfilter(filterType, [cur EXCEPT ![i] = v], prevLine, bytesPerPixel, i + 1)

\* one pixel of the row as RGBA; ok = FALSE is the return null of the palette
\* branch
ExpandPixel(colorType, curLine, x, bytesPerPixel, plte, trns) ==
  LET inIdx == x * bytesPerPixel
  IN  CASE colorType = 6 ->
             [ok |-> TRUE, px |-> << curLine[inIdx + 1], curLine[inIdx + 2],
                                     curLine[inIdx + 3], curLine[inIdx + 4] >>]
        [] colorType = 2 ->
             [ok |-> TRUE, px |-> << curLine[inIdx + 1], curLine[inIdx + 2],
                                     curLine[inIdx + 3], 255 >>]
        [] colorType = 0 ->
             [ok |-> TRUE, px |-> << curLine[inIdx + 1], curLine[inIdx + 1],
                                     curLine[inIdx + 1], 255 >>]
        [] colorType = 3 ->
             LET idx    == curLine[inIdx + 1]
                 palIdx == idx * 3
             IN  IF ~plte.present THEN [ok |-> FALSE]
                 ELSE IF palIdx + 2 >= Len(plte.data) THEN [ok |-> FALSE]
                 ELSE [ok |-> TRUE,
                       px |-> << plte.data[palIdx + 1], plte.data[palIdx + 2],
                                 plte.data[palIdx + 3],
                                 IF trns.present /\ idx < Len(trns.data)
                                 THEN trns.data[idx + 1] ELSE 255 >>]
        \* no branch of the chain: the pixel stays as Buffer.alloc made it
        [] OTHER -> [ok |-> TRUE, px |-> <<0, 0, 0, 0>>]

RECURSIVE ExpandRow(_, _, _, _, _, _, _)
ExpandRow(colorType, curLine, width, bytesPerPixel, plte, trns, x) ==
  IF x >= width THEN [ok |-> TRUE, data |-> << >>]
  ELSE
    LET p == ExpandPixel(colorType, curLine, x, bytesPerPixel, plte, trns)
    IN  IF ~p.ok THEN [ok |-> FALSE]
        ELSE LET rest == ExpandRow(colorType, curLine, width, bytesPerPixel,
                                   plte, trns, x + 1)
             IN  IF ~rest.ok THEN [ok |-> FALSE]
                 ELSE [ok |-> TRUE, data |-> p.px \o rest.data]

\* a variant of the test below that knows every filter type
AnyFilter(filterType) == TRUE

\* the filter types the chain of lines 186-223 has a branch for; any other
\* reaches its final else
KnownFilter(filterType) == filterType \in 0..4

\* the loop over the scanlines; out is the part of the output written so far
RECURSIVE RowLoop(_, _, _, _, _, _, _)
RowLoop(raw, ihdr, plte, trns, y, pos, acc) ==
  LET bytesPerPixel    == acc.channels
      expectedRowBytes == ihdr.width * bytesPerPixel
  IN  IF y >= ihdr.height THEN
        [ok |-> TRUE, width |-> ihdr.width, height |-> ihdr.height, data |-> acc.out]
      ELSE IF pos >= Len(raw) THEN NULL
      ELSE
        LET filterType == raw[pos + 1]
            pos1       == pos + 1
        IN  IF pos1 + expectedRowBytes > Len(raw) THEN NULL
            ELSE IF ~KnownFilter(filterType) THEN NULL
            ELSE
              LET copied  == Slice(raw, pos1, pos1 + expectedRowBytes)
                  curLine == Unfilter(filterType, copied, acc.prevLine,
                                      bytesPerPixel, 1)
                  row     == ExpandRow(ihdr.colorType, curLine, ihdr.width,
                                       bytesPerPixel, plte, trns, 0)
              IN  IF ~row.ok THEN NULL
                  ELSE RowLoop(raw, ihdr, plte, trns, y + 1,
                               pos1 + expectedRowBytes,
                               [acc EXCEPT !.prevLine = curLine,
                                           !.out = acc.out \o row.data])

\* a variant of the switch below with a case for gray with alpha
ChannelsGrayAlpha(colorType) ==
  CASE colorType = 6 -> 4
    [] colorType = 2 -> 3
    [] colorType = 0 -> 1
    [] colorType = 3 -> 1
    [] colorType = 4 -> 2
    [] OTHER -> 0

Channels(colorType) ==
  CASE colorType = 6 -> 4
    [] colorType = 2 -> 3
    [] colorType = 0 -> 1
    [] colorType = 3 -> 1
    [] OTHER -> 0

\* a variant of the decoder below that does not ask for an IEND
parsePNGUnended(buf) ==
  IF Len(buf) < 8 \/ Slice(buf, 0, 8) # PNG_SIG THEN NULL
  ELSE
    LET st   == ChunkLoop(buf, 8, NoChunks)
        ihdr == st.ihdr
    IN  IF st.threw THEN NULL
        ELSE IF ~ihdr.present THEN NULL
        ELSE IF ihdr.compression # 0 \/ ihdr.filter # 0 THEN NULL
        ELSE IF ihdr.bitDepth # 8 THEN NULL
        ELSE IF ihdr.interlace # 0 THEN NULL
        ELSE
          LET inflated == inflateSync(st.idat)
          IN  IF inflated.throws THEN NULL
              ELSE IF Channels(ihdr.colorType) = 0 THEN NULL
              ELSE RowLoop(inflated.data, ihdr, st.plte, st.trns, 0, 0,
                           [ channels |-> Channels(ihdr.colorType),
                             prevLine |-> [i \in 1..(ihdr.width
                                             * Channels(ihdr.colorType)) |-> 0],
                             out      |-> << >> ])

parsePNG(buf) ==
  IF Len(buf) < 8 \/ Slice(buf, 0, 8) # PNG_SIG THEN NULL
  ELSE
    LET st   == ChunkLoop(buf, 8, NoChunks)
        ihdr == st.ihdr
    IN  IF st.threw THEN NULL
        ELSE IF ~ihdr.present \/ ~st.ended THEN NULL
        ELSE IF ihdr.compression # 0 \/ ihdr.filter # 0 THEN NULL
        ELSE IF ihdr.bitDepth # 8 THEN NULL
        ELSE IF ihdr.interlace # 0 THEN NULL
        ELSE
          LET inflated == inflateSync(st.idat)
          IN  IF inflated.throws THEN NULL
              ELSE IF Channels(ihdr.colorType) = 0 THEN NULL
              ELSE RowLoop(inflated.data, ihdr, st.plte, st.trns, 0, 0,
                           [ channels |-> Channels(ihdr.colorType),
                             prevLine |-> [i \in 1..(ihdr.width
                                             * Channels(ihdr.colorType)) |-> 0],
                             out      |-> << >> ])

(***************************************************************************)
(* analyzeRGBA                                                             *)
(***************************************************************************)
ALPHA_THRESHOLD == 128
LUMINANCE_THRESHOLD == 128
\* TRANSPARENT_RATIO_THRESHOLD = 0.5, as the fraction 1 / 2
RATIO_THRESHOLD_NUM == 1
RATIO_THRESHOLD_DEN == 2

\* 0.2126, 0.7152 and 0.0722 in units of 1 / LUMA_SCALE
LUMA_SCALE == 10000
LUMA_R == 2126
LUMA_G == 7152
LUMA_B == 722

\* the body of the loop of analyzeRGBA at byte offset i (0-based)
\* a variant of the step below with <= for <
AnalyzeStepInclusive(rgbaBuf, i, acc) ==
  LET r == ByteAt(rgbaBuf, i)
      g == ByteAt(rgbaBuf, i + 1)
      b == ByteAt(rgbaBuf, i + 2)
      a == ByteAt(rgbaBuf, i + 3)
  IN  IF a # UNDEFINED /\ a <= ALPHA_THRESHOLD THEN
        [acc EXCEPT !.transparentCount = acc.transparentCount + 1]
      ELSE
        [acc EXCEPT !.lumSum = acc.lumSum + LUMA_R * r + LUMA_G * g + LUMA_B * b,
                    !.lumCount = acc.lumCount + 1]

AnalyzeStep(rgbaBuf, i, acc) ==
  LET r == ByteAt(rgbaBuf, i)
      g == ByteAt(rgbaBuf, i + 1)
      b == ByteAt(rgbaBuf, i + 2)
      a == ByteAt(rgbaBuf, i + 3)
  IN  IF a # UNDEFINED /\ a < ALPHA_THRESHOLD THEN
        [acc EXCEPT !.transparentCount = acc.transparentCount + 1]
      ELSE
        [acc EXCEPT !.lumSum = acc.lumSum + LUMA_R * r + LUMA_G * g + LUMA_B * b,
                    !.lumCount = acc.lumCount + 1]

\* the loop of analyzeRGBA over the steps lo..hi (step p is at offset 4 p)
RECURSIVE AnalyzeLoop(_, _, _, _)
AnalyzeLoop(rgbaBuf, lo, hi, acc) ==
  IF lo > hi THEN acc
  ELSE IF lo = hi THEN AnalyzeStep(rgbaBuf, 4 * lo, acc)
  ELSE LET mid == (lo + hi) \div 2
           first == AnalyzeLoop(rgbaBuf, lo, mid, acc)
       IN  IF first.lumCount >= 0 THEN AnalyzeLoop(rgbaBuf, mid + 1, hi, first)
           ELSE first

\* transparentRatio is the fraction num / den; avgLuma is the fraction
\* num / den in units of 1 / LUMA_SCALE.  A buffer reaches the analyzer only
\* from parsePNG, whose length is a multiple of 4, so totalPixels is whole.
analyzeRGBA(rgbaBuf) ==
  LET totalPixels == Len(rgbaBuf) \div 4
      acc == AnalyzeLoop(rgbaBuf, 0, (Len(rgbaBuf) + 3) \div 4 - 1,
                         [transparentCount |-> 0, lumSum |-> 0, lumCount |-> 0])
  IN  [ transparentRatio |->
          [ num |-> acc.transparentCount,
            den |-> IF totalPixels = 0 THEN 1 ELSE totalPixels ],
        avgLuma |->
          IF acc.lumCount # 0
          THEN [num |-> acc.lumSum, den |-> acc.lumCount]
          ELSE [num |-> 255 * LUMA_SCALE, den |-> 1] ]

\* a variant of the comparison below with > for >=
RatioAboveThreshold(q) ==
  q.num * RATIO_THRESHOLD_DEN > RATIO_THRESHOLD_NUM * q.den

\* transparentRatio >= TRANSPARENT_RATIO_THRESHOLD
RatioAtLeastThreshold(q) ==
  q.num * RATIO_THRESHOLD_DEN >= RATIO_THRESHOLD_NUM * q.den

\* a variant of the comparison below with <= for <
LumaAtMostThreshold(q) == q.num <= LUMINANCE_THRESHOLD * LUMA_SCALE * q.den

\* avgLuma < LUMINANCE_THRESHOLD
LumaBelowThreshold(q) == q.num < LUMINANCE_THRESHOLD * LUMA_SCALE * q.den

(***************************************************************************)
(* flattenRGBA                                                             *)
(***************************************************************************)
HexDigit ==
  [c \in {"0", "1", "2", "3", "4", "5", "6", "7", "8", "9",
          "a", "b", "c", "d", "e", "f"} |->
     CASE c = "0" -> 0 [] c = "1" -> 1 [] c = "2" -> 2 [] c = "3" -> 3
       [] c = "4" -> 4 [] c = "5" -> 5 [] c = "6" -> 6 [] c = "7" -> 7
       [] c = "8" -> 8 [] c = "9" -> 9 [] c = "a" -> 10 [] c = "b" -> 11
       [] c = "c" -> 12 [] c = "d" -> 13 [] c = "e" -> 14 [] c = "f" -> 15]

\* a colour '#rrggbb' is kept as its seven characters
WHITE_HEX == <<"#", "f", "f", "f", "f", "f", "f">>
DARK_HEX  == <<"#", "1", "f", "1", "f", "1", "f">>
BLACK_HEX == <<"#", "0", "0", "0", "0", "0", "0">>

\* parseInt(bgHex.slice(from, from + 2), 16)
ParseHexPair(bgHex, from) ==
  HexDigit[bgHex[from + 1]] * 16 + HexDigit[bgHex[from + 2]]

\* Math.round(c * a + bg * (1 - a)) with a = alpha / 255, stored in a byte; an
\* undefined operand makes the sum NaN, which a Buffer stores as 0
\* a variant of the blend below with the two weights exchanged
CompositeSwapped(c, alpha, bg) ==
  IF c = UNDEFINED \/ alpha = UNDEFINED THEN 0
  ELSE (2 * (bg * alpha + c * (255 - alpha)) + 255) \div 510

Composite(c, alpha, bg) ==
  IF c = UNDEFINED \/ alpha = UNDEFINED THEN 0
  ELSE (2 * (c * alpha + bg * (255 - alpha)) + 255) \div 510

SCALE_NUM == 4      \* scale = 0.8 = SCALE_NUM / SCALE_DEN
SCALE_DEN == 5

\* the body of the two nested loops of the shrink-and-center compositor at
\* their k-th iteration: y = k div scaledW, x = k mod scaledW
DrawStep(out, rgbaBuf, width, height, bg, dims, k) ==
    LET x      == k % dims.scaledW
        y      == k \div dims.scaledW
        srcX   == (x * SCALE_DEN) \div SCALE_NUM
        srcY   == (y * SCALE_DEN) \div SCALE_NUM
        sX     == IF srcX < width - 1 THEN srcX ELSE width - 1
        sY     == IF srcY < height - 1 THEN srcY ELSE height - 1
        srcIdx == (sY * width + sX) * 4
        alpha  == ByteAt(rgbaBuf, srcIdx + 3)
        dstX   == x + dims.offX
        dstY   == y + dims.offY
        dstIdx == (dstY * width + dstX) * 4
    IN  [out EXCEPT
           ![dstIdx + 1] = Composite(ByteAt(rgbaBuf, srcIdx), alpha, bg[1]),
           ![dstIdx + 2] = Composite(ByteAt(rgbaBuf, srcIdx + 1), alpha, bg[2]),
           ![dstIdx + 3] = Composite(ByteAt(rgbaBuf, srcIdx + 2), alpha, bg[3]),
           ![dstIdx + 4] = 255]

\* the iterations lo..hi of the nested loops, in order
RECURSIVE DrawLoop(_, _, _, _, _, _, _, _)
DrawLoop(out, rgbaBuf, width, height, bg, dims, lo, hi) ==
  IF lo > hi THEN out
  ELSE IF lo = hi THEN DrawStep(out, rgbaBuf, width, height, bg, dims, lo)
  ELSE LET mid == (lo + hi) \div 2
           first == DrawLoop(out, rgbaBuf, width, height, bg, dims, lo, mid)
       IN  IF Len(first) = Len(out)
           THEN DrawLoop(first, rgbaBuf, width, height, bg, dims, mid + 1, hi)
           ELSE first

\* a variant of the dimensions below that draws from the top left corner
ScaledDimsCorner(width, height) ==
  LET scaledW == (width * SCALE_NUM) \div SCALE_DEN
      scaledH == (height * SCALE_NUM) \div SCALE_DEN
  IN  [ scaledW |-> scaledW, scaledH |-> scaledH, offX |-> 0, offY |-> 0 ]

ScaledDims(width, height) ==
  LET scaledW == (width * SCALE_NUM) \div SCALE_DEN
      scaledH == (height * SCALE_NUM) \div SCALE_DEN
  IN  [ scaledW |-> scaledW, scaledH |-> scaledH,
        offX |-> (width - scaledW) \div 2,
        offY |-> (height - scaledH) \div 2 ]

\* a variant of the shrink-and-center compositor whose background fill
\* leaves the alpha byte as Buffer.alloc made it
flattenRGBAUnfilled(rgbaBuf, width, height, bgHex) ==
  LET bg == << ParseHexPair(bgHex, 1), ParseHexPair(bgHex, 3), ParseHexPair(bgHex, 5) >>
      filled == [i \in 1..(width * height * 4) |->
                   IF i % 4 = 0 THEN 0 ELSE bg[i % 4]]
      dims == ScaledDims(width, height)
  IN  DrawLoop(filled, rgbaBuf, width, height, bg, dims,
               0, dims.scaledW * dims.scaledH - 1)

\* flattenRGBA(rgbaBuf, width, height, bgHex) of lines 329-387
flattenRGBA(rgbaBuf, width, height, bgHex) ==
  LET bg == << ParseHexPair(bgHex, 1), ParseHexPair(bgHex, 3), ParseHexPair(bgHex, 5) >>
      filled == [i \in 1..(width * height * 4) |->
                   IF i % 4 = 0 THEN 255 ELSE bg[i % 4]]
      dims == ScaledDims(width, height)
  IN  DrawLoop(filled, rgbaBuf, width, height, bg, dims,
               0, dims.scaledW * dims.scaledH - 1)

\* a variant of the full-bleed compositor that leaves the alpha byte alone
flattenRGBAKeepAlpha(rgbaBuf, bgHex) ==
  LET bg == << ParseHexPair(bgHex, 1), ParseHexPair(bgHex, 3), ParseHexPair(bgHex, 5) >>
  IN  [i \in 1..Len(rgbaBuf) |->
         LET base == ((i - 1) \div 4) * 4
         IN  IF i % 4 = 0 THEN rgbaBuf[i]
             ELSE Composite(rgbaBuf[i], ByteAt(rgbaBuf, base + 3), bg[i % 4])]

\* flattenRGBA(rgbaBuf, bgHex) of lines 939-956
flattenRGBAFull(rgbaBuf, bgHex) ==
  LET bg == << ParseHexPair(bgHex, 1), ParseHexPair(bgHex, 3), ParseHexPair(bgHex, 5) >>
  IN  [i \in 1..Len(rgbaBuf) |->
         LET base == ((i - 1) \div 4) * 4
         IN  IF i % 4 = 0 THEN 255
             ELSE Composite(rgbaBuf[i], ByteAt(rgbaBuf, base + 3), bg[i % 4])]

\* buf.toString('base64'): four characters for every three bytes, each kept
\* as its index in the base64 alphabet, B64_PAD standing for '='
B64_PAD == 64

ToBase64(buf) ==
  LET n == Len(buf)
  IN  [j \in 1..(4 * ((n + 2) \div 3)) |->
         LET g  == 3 * ((j - 1) \div 4)
             k  == (j - 1) % 4
             b0 == buf[g + 1]
             b1 == IF g + 2 <= n THEN buf[g + 2] ELSE 0
             b2 == IF g + 3 <= n THEN buf[g + 3] ELSE 0
         IN  CASE k = 0 -> b0 \div 4
               [] k = 1 -> (b0 % 4) * 16 + b1 \div 16
               [] k = 2 -> IF g + 2 > n THEN B64_PAD ELSE (b1 % 16) * 4 + b2 \div 64
               [] k = 3 -> IF g + 3 > n THEN B64_PAD ELSE b2 % 64]

\* `data:${mime};base64,${buf.toString('base64')}`: the text, kept as its two
\* variable parts
bufferToDataURI(buf, mimeType) == [mime |-> mimeType, base64 |-> ToBase64(buf)]

\* what a reader of a data URI recovers from its base64 part
FromBase64(txt) ==
  LET pads == Cardinality({j \in 1..Len(txt) : txt[j] = B64_PAD})
      at(j) == IF txt[j] = B64_PAD THEN 0 ELSE txt[j]
  IN  [i \in 1..(3 * (Len(txt) \div 4) - pads) |->
         LET g == 4 * ((i - 1) \div 3)
             k == (i - 1) % 3
         IN  CASE k = 0 -> at(g + 1) * 4 + at(g + 2) \div 16
               [] k = 1 -> (at(g + 2) % 16) * 16 + at(g + 3) \div 4
               [] k = 2 -> (at(g + 3) % 4) * 64 + at(g + 4)]

(***************************************************************************)
(* The streams offered to the pipeline.  A stream is either the encoder's   *)
(* output for an image (encoded: the image's width, height and RGBA        *)
(* bytes), or it is described by its signature bytes, its chunks in order  *)
(* (type and data), the number of bytes cut off its end, and the bytes     *)
(* appended after it.                                                      *)
(***************************************************************************)
MaxPixels == 4      \* images of every shape up to this many pixels
MaxRuns == 2        \* how often the pipeline is run on its own output

RECURSIVE ChunkBytes(_)
ChunkBytes(chunks) ==
  IF chunks = << >> THEN << >>
  ELSE makeChunk(Head(chunks).type, Head(chunks).data) \o ChunkBytes(Tail(chunks))

BytesOf(d) ==
  IF d.encoded THEN encodePNG(d.rgba, d.w, d.h)
  ELSE LET all == d.sig \o ChunkBytes(d.chunks) \o d.trail
       IN  Slice(all, 0, Len(all) - d.cut)

Chunk(t, data) == [type |-> t, data |-> data]

IHDR(w, h, ct) == Chunk("IHDR", IhdrData(w, h, 8, ct, 0, 0, 0))
IEND == Chunk("IEND", << >>)

Stream(family, chunks) ==
  [ family |-> family, encoded |-> FALSE, w |-> 0, h |-> 0, rgba |-> << >>,
    sig |-> PNG_SIG, chunks |-> chunks, cut |-> 0, trail |-> << >> ]

Encoded(family, w, h, rgba) ==
  [ family |-> family, encoded |-> TRUE, w |-> w, h |-> h, rgba |-> rgba,
    sig |-> << >>, chunks |-> << >>, cut |-> 0, trail |-> << >> ]

\* the scanlines of an image, each with its filter-type byte
RECURSIVE Scanlines(_, _)
Scanlines(filters, rows) ==
  IF rows = << >> THEN << >>
  ELSE <<Head(filters)>> \o Head(rows) \o Scanlines(Tail(filters), Tail(rows))

RECURSIVE Concat(_)
Concat(seqs) ==
  IF seqs = << >> THEN << >> ELSE Head(seqs) \o Concat(Tail(seqs))

CLEAR == <<0, 0, 0, 0>>            \* fully transparent
BLACK == <<0, 0, 0, 255>>          \* opaque black
HALF  == <<200, 100, 50, 128>>     \* alpha at the threshold
GridPixels == {CLEAR, BLACK, HALF}

Shapes == {wh \in (0..MaxPixels) \X (0..MaxPixels) : wh[1] * wh[2] <= MaxPixels}

\* every image of every shape over GridPixels, the empty shapes included
GridStreams ==
  UNION { { Encoded("grid", wh[1], wh[2], Concat(px)) :
              px \in [1..(wh[1] * wh[2]) -> GridPixels] } : wh \in Shapes }

\* one and two pixels around the alpha threshold, light and dark
EdgeAlphas == {0, 127, 128, 255}
EdgeColours == {<<255, 255, 255>>, <<10, 20, 30>>, <<128, 128, 128>>}
EdgePixels == {c \o <<a>> : c \in EdgeColours, a \in EdgeAlphas}
EdgeStreams ==
  { Encoded("edge", 1, 1, p) : p \in EdgePixels }
  \cup { Encoded("edge", 2, 1, p \o q) :
           p \in EdgePixels, q \in {CLEAR, <<255, 255, 255, 255>>} }

\* larger images whose pixel k is picked by (k + seed) from a fixed list
PatternPixels ==
  << CLEAR, BLACK, <<255, 255, 255, 255>>, CLEAR, <<9, 90, 200, 60>>,
     CLEAR, <<40, 50, 60, 255>> >>
PatternImage(w, h, seed) ==
  [j \in 1..(w * h * 4) |->
     PatternPixels[(((j - 1) \div 4 + 1 + seed) % Len(PatternPixels)) + 1][((j - 1) % 4) + 1]]
PatternShapes == {<<3, 3>>, <<6, 3>>, <<5, 6>>}
PatternStreams ==
  { Encoded("pattern", wh[1], wh[2], PatternImage(wh[1], wh[2], seed)) :
      wh \in PatternShapes, seed \in 0..3 }

\* 2 x 2 images of each directly stored colour type under each pair of row
\* filter types, 5 being no filter type.  The bytes are chosen so that with
\* None above Paeth the predictor meets both ties that can show: left against
\* above-left, and above against above-left.
FilterBytes == <<3, 1, 200, 7, 0, 3, 129, 0, 4, 255, 1, 0, 64, 0, 77, 5>>
FilterStreams ==
  { Stream("filter",
           << IHDR(2, 2, ct),
              Chunk("IDAT", deflateSync(
                 Scanlines(<<f1, f2>>,
                           << Slice(FilterBytes, 0, 2 * Channels(ct)),
                              Slice(FilterBytes, 8, 8 + 2 * Channels(ct)) >>))),
              IEND >>) :
      ct \in {0, 2, 6}, f1 \in 0..5, f2 \in 0..5 }

\* a 2 x 2 RGBA image whose inflated stream is too short or too long
ShortBase == RawScanlines(CLEAR \o BLACK \o CLEAR \o HALF, 2, 2)
ShortStreams ==
  { Stream("short",
           << IHDR(2, 2, 6),
              Chunk("IDAT", deflateSync(Slice(ShortBase \o <<0, 0>>, 0, n))),
              IEND >>) :
      n \in {0, 1, 8, 9, 10, 17, 18, 19, 20} }

\* palette images: two palette entries, indices 0..2, with and without tRNS
PLTE2 == Chunk("PLTE", <<10, 20, 30, 250, 240, 230>>)
IndexedStreams ==
  { Stream("indexed",
           << IHDR(2, 1, 3) >> \o pre \o
           << Chunk("IDAT", deflateSync(<<0, i, j>>)), IEND >>) :
      i \in 0..2, j \in 0..1,
      pre \in { << >>, << PLTE2 >>,
                << PLTE2, Chunk("tRNS", <<0>>) >>,
                << PLTE2, Chunk("tRNS", <<0, 100, 0>>) >> } }

\* palette images of no pixels, with no palette
EmptyIndexedStreams ==
  { Stream("emptyindexed", << IHDR(wh[1], wh[2], 3),
                              Chunk("IDAT", deflateSync(<<0, 0, 0>>)), IEND >>) :
      wh \in {<<2, 0>>, <<0, 1>>} }

\* the same 2 x 1 image (one clear, one black pixel) under each chunk layout
BaseIdat == deflateSync(RawScanlines(CLEAR \o BLACK, 2, 1))
LayoutStreams ==
  { Stream("layout", cs) :
      cs \in { << IHDR(2, 1, 6), Chunk("IDAT", BaseIdat), IEND >>,
               << IHDR(2, 1, 6),
                  Chunk("IDAT", Slice(BaseIdat, 0, 5)),
                  Chunk("IDAT", Slice(BaseIdat, 5, Len(BaseIdat))), IEND >>,
               << Chunk("tEXt", <<65, 0, 66>>), IHDR(2, 1, 6),
                  Chunk("IDAT", BaseIdat), IEND >>,
               << Chunk("IDAT", BaseIdat), IHDR(2, 1, 6), IEND >>,
               << IHDR(1, 2, 6), IHDR(2, 1, 6), Chunk("IDAT", BaseIdat), IEND >>,
               << IHDR(2, 1, 6), Chunk("IDAT", BaseIdat), IHDR(1, 2, 6), IEND >>,
               << IHDR(2, 1, 6), IHDR(2, 1, 6), Chunk("IDAT", BaseIdat), IEND >>,
               << Chunk("IDAT", BaseIdat), IEND >>,
               << Chunk("IDAT", BaseIdat), IEND, IHDR(2, 1, 6) >>,
               << IHDR(2, 1, 6), Chunk("IDAT", BaseIdat) >>,
               << IHDR(2, 1, 6), IEND >>,
               << IHDR(2, 1, 6), Chunk("IDAT", BaseIdat), IEND, IEND >>,
               << Chunk("IHDR", <<0, 0, 0, 2, 0, 0>>), Chunk("IDAT", BaseIdat), IEND >>,
               << Chunk("IHDR", <<0, 0, 0, 2, 0, 0, 0, 1, 8, 6>>),
                  Chunk("IDAT", BaseIdat), IEND >>,
               << >> } }

Plain == Stream("framing", << IHDR(2, 1, 6), Chunk("IDAT", BaseIdat), IEND >>)

\* the plain stream cut short, followed by other bytes, or under a wrong
\* signature; a stream whose last chunk header runs past the end; and buffers
\* that are no PNG at all
FramingStreams ==
  { [Plain EXCEPT !.cut = n] : n \in {1, 4, 12, 13, 16, 20, 40, Len(BytesOf(Plain)) - 8} }
  \cup { [Plain EXCEPT !.trail = t] : t \in {<<0>>, <<0, 0, 0, 0, 73, 72, 68, 82, 0>>} }
  \cup { [Plain EXCEPT !.sig = g] :
           g \in { <<137, 80, 78, 71, 13, 10, 26, 11>>,
                   <<255, 216, 255, 224, 0, 16, 74, 70>>,
                   <<137, 80, 78, 71>>, << >> } }
  \cup { [Stream("framing", << IHDR(2, 1, 6), Chunk("IDAT", BaseIdat) >>)
            EXCEPT !.trail = t] :
           t \in { <<0, 0, 0, 50, 73, 68, 65, 84, 1, 2, 3>>,   \* IDAT of 50 bytes, 3 there
                   <<0, 0, 0, 0, 73, 69, 78, 68>>,             \* IEND without its CRC
                   <<0, 0, 0>> } }                             \* part of a length
  \cup { [Stream("framing", << >>) EXCEPT !.sig = g] :
           g \in { << >>, <<71, 73, 70>>, <<137, 80, 78, 71, 13, 10, 26>>,
                   <<255, 216, 255, 224, 0, 16, 74, 70, 73, 70, 0>> } }

\* the plain image behind a compressed stream inflateSync rejects
BadZlib ==
  { [BaseIdat EXCEPT ![1] = 121],
    [BaseIdat EXCEPT ![2] = 2],
    [BaseIdat EXCEPT ![3] = 3],
    [BaseIdat EXCEPT ![6] = 0],
    [BaseIdat EXCEPT ![Len(BaseIdat)] = (BaseIdat[Len(BaseIdat)] + 1) % 256],
    Slice(BaseIdat, 0, Len(BaseIdat) - 1),
    Slice(BaseIdat, 0, 6),
    << >> }
ZlibStreams ==
  { Stream("zlib", << IHDR(2, 1, 6), Chunk("IDAT", z), IEND >>) : z \in BadZlib }

\* header fields outside what the decoder supports, and empty images
HeaderStreams ==
  { Stream("header", << Chunk("IHDR", hd), Chunk("IDAT", BaseIdat), IEND >>) :
      hd \in { IhdrData(2, 1, 16, 6, 0, 0, 0), IhdrData(2, 1, 4, 6, 0, 0, 0),
               IhdrData(2, 1, 8, 4, 0, 0, 0), IhdrData(2, 1, 8, 1, 0, 0, 0),
               IhdrData(2, 1, 8, 6, 1, 0, 0), IhdrData(2, 1, 8, 6, 0, 1, 0),
               IhdrData(2, 1, 8, 6, 0, 0, 1),
               IhdrData(0, 1, 8, 6, 0, 0, 0), IhdrData(2, 0, 8, 6, 0, 0, 0),
               IhdrData(0, 0, 8, 6, 0, 0, 0), IhdrData(1, 1, 8, 6, 0, 0, 0) } }

Streams ==
  GridStreams \cup EdgeStreams \cup PatternStreams \cup FilterStreams
  \cup ShortStreams \cup IndexedStreams \cup LayoutStreams \cup FramingStreams
  \cup ZlibStreams \cup HeaderStreams \cup EmptyIndexedStreams

PNG_MIME == "image/png"
MediaTypes == {PNG_MIME, "image/jpeg", "image/x-icon", "application/octet-stream"}

(***************************************************************************)
(* The processing step of the handler (lines 549-594; in the second        *)
(* generation lines 1053-1090 for a custom icon and 1119-1159 for Google's)*)
(* on the bytes and the media type the fetch delivered.                    *)
(***************************************************************************)
VARIABLES
  impl,       \* 1: the handler of lines 412-612, 2: the one of lines 981-1175
  gen,        \* the description of the stream the first run was given
  buffer,     \* the fetched bytes
  mime,       \* their declared media type
  pc,         \* where the handler is
  parsed,     \* what parsePNG returned
  analysis,   \* what analyzeRGBA returned
  bgHex,      \* the background chosen
  flattened,  \* what flattenRGBA returned
  pngOut,     \* what encodePNG returned
  caught,     \* the call whose exception the inner catch caught
  ran,        \* the stages this run has entered
  response,   \* what was sent
  runs,       \* the runs completed so far: input, output and course of each
  \* the server process as a whole (used by HandlerSpec below)
  requests,         \* the requests in flight or answered, each with its locals
  reportedDomains,  \* the module-level Set of line 19
  posts,            \* the POSTs made to the webhook
  processed,        \* what the processing step makes of each image on offer
  results,          \* what the parallel fetch of each source came to
  winningSource     \* the name of the source chosen

\* the variables of one pass through the processing step
stepVars == << gen, buffer, mime, pc, parsed, analysis, bgHex, flattened,
               pngOut, caught, ran, response, runs >>

\* the variables of the server process
serverVars == << requests, reportedDomains, posts, processed, results, winningSource >>

vars == << impl, stepVars, serverVars >>

NoAnalysis == [transparentRatio |-> [num |-> 0, den |-> 1],
               avgLuma |-> [num |-> 0, den |-> 1]]
NoResponse == [status |-> 0, body |-> bufferToDataURI(<< >>, "")]

Init ==
  /\ impl \in {1, 2}
  /\ gen \in Streams
  /\ buffer = BytesOf(gen)
  /\ mime \in MediaTypes
  /\ pc = "start"
  /\ parsed = NULL
  /\ analysis = NoAnalysis
  /\ bgHex = << >>
  /\ flattened = << >>
  /\ pngOut = << >>
  /\ caught = "none"
  /\ ran = {}
  /\ response = NoResponse
  /\ runs = << >>
  /\ requests = << >>
  /\ reportedDomains = {}
  /\ posts = {}
  /\ processed = {}
  /\ results = << >>
  /\ winningSource = ""

\* a variant of the test below that lets every image type in
ImageTypes == {"image/png", "image/jpeg", "image/x-icon"}
IsAnyImage(m) == m \in ImageTypes

\* mime === 'image/png'
IsPng(m) == m = PNG_MIME

\* the test fails: straight to the default return
NotPng ==
  /\ pc = "start"
  /\ ~IsPng(mime)
  /\ pc' = "default"
  /\ UNCHANGED serverVars
  /\ UNCHANGED << impl, gen, buffer, mime, parsed, analysis, bgHex, flattened,
                  pngOut, caught, ran, response, runs >>

\* const parsed = parsePNG(buffer); if (parsed) ...
Decode ==
  /\ pc = "start"
  /\ IsPng(mime)
  /\ parsed' = parsePNG(buffer)
  /\ ran' = ran \cup {"decoder"}
  /\ pc' = IF parsed'.ok THEN "decoded" ELSE "default"
  /\ UNCHANGED serverVars
  /\ UNCHANGED << impl, gen, buffer, mime, analysis, bgHex, flattened, pngOut,
                  caught, response, runs >>

\* const { transparentRatio, avgLuma } = analyzeRGBA(parsed.data)
Analyze ==
  /\ pc = "decoded"
  /\ analysis' = analyzeRGBA(parsed.data)
  /\ ran' = ran \cup {"analyzer"}
  /\ pc' = "analyzed"
  /\ UNCHANGED serverVars
  /\ UNCHANGED << impl, gen, buffer, mime, parsed, bgHex, flattened, pngOut,
                  caught, response, runs >>

\* the dark colour of each generation
DarkHex(i) == IF i = 1 THEN DARK_HEX ELSE BLACK_HEX

\* const bgHex = avgLuma < LUMINANCE_THRESHOLD ? '#ffffff' : <dark>
ChooseBackground(i, avgLuma) ==
  IF LumaBelowThreshold(avgLuma) THEN WHITE_HEX ELSE DarkHex(i)

\* if (transparentRatio >= TRANSPARENT_RATIO_THRESHOLD) { const bgHex = ...
Decide ==
  /\ pc = "analyzed"
  /\ IF RatioAtLeastThreshold(analysis.transparentRatio)
     THEN /\ bgHex' = ChooseBackground(impl, analysis.avgLuma)
          /\ pc' = "flatten"
     ELSE /\ bgHex' = bgHex
          /\ pc' = "default"
  /\ UNCHANGED serverVars
  /\ UNCHANGED << impl, gen, buffer, mime, parsed, analysis, flattened, pngOut,
                  caught, ran, response, runs >>

\* the call of flattenRGBA each generation makes
CallFlatten(i, p, bg) ==
  IF i = 1 THEN flattenRGBA(p.data, p.width, p.height, bg)
  ELSE flattenRGBAFull(p.data, bg)

Compose ==
  /\ pc = "flatten"
  /\ flattened' = CallFlatten(impl, parsed, bgHex)
  /\ ran' = ran \cup {"compositor"}
  /\ pc' = "encode"
  /\ UNCHANGED serverVars
  /\ UNCHANGED << impl, gen, buffer, mime, parsed, analysis, bgHex, pngOut,
                  caught, response, runs >>

\* where the inner catch leaves the handler: at the default return
AfterCatch == "default"

\* flattenRGBA throws (Buffer.alloc refuses the size): the inner catch
ComposeThrows ==
  /\ pc = "flatten"
  /\ ran' = ran \cup {"compositor"}
  /\ caught' = "flattenRGBA"
  /\ pc' = AfterCatch
  /\ UNCHANGED serverVars
  /\ UNCHANGED << impl, gen, buffer, mime, parsed, analysis, bgHex, flattened,
                  pngOut, response, runs >>

Encode ==
  /\ pc = "encode"
  /\ pngOut' = encodePNG(flattened, parsed.width, parsed.height)
  /\ ran' = ran \cup {"encoder"}
  /\ pc' = "send"
  /\ UNCHANGED serverVars
  /\ UNCHANGED << impl, gen, buffer, mime, parsed, analysis, bgHex, flattened,
                  caught, response, runs >>

\* encodePNG throws (deflateSync or an allocation fails): the inner catch
EncodeThrows ==
  /\ pc = "encode"
  /\ ran' = ran \cup {"encoder"}
  /\ caught' = "encodePNG"
  /\ pc' = AfterCatch
  /\ UNCHANGED serverVars
  /\ UNCHANGED << impl, gen, buffer, mime, parsed, analysis, bgHex, flattened,
                  pngOut, response, runs >>

RunRecord(outcome, resp) ==
  [ input |-> [mime |-> mime, bytes |-> buffer], output |-> resp.body,
    status |-> resp.status, outcome |-> outcome, decoded |-> parsed.ok,
    analysis |-> analysis, caught |-> caught, ran |-> ran ]

\* const outDataURI = bufferToDataURI(pngOut, 'image/png')
FlattenedURI(png) == bufferToDataURI(png, PNG_MIME)

\* res.status(200).send(outDataURI); return
SendFlattened ==
  /\ pc = "send"
  /\ response' = [status |-> 200, body |-> FlattenedURI(pngOut)]
  /\ runs' = Append(runs, RunRecord("flattened", response'))
  /\ pc' = "done"
  /\ UNCHANGED serverVars
  /\ UNCHANGED << impl, gen, buffer, mime, parsed, analysis, bgHex, flattened,
                  pngOut, caught, ran >>

\* a variant of the default return that sends the decoded pixels when there
\* are any
DecodedURI(buf, m, p) == bufferToDataURI(IF p.ok THEN p.data ELSE buf, m)

\* const originalURI = bufferToDataURI(buffer, mime)
OriginalURI(buf, m, p) == bufferToDataURI(buf, m)

\* the default return: res.status(200).send(originalURI)
SendOriginal ==
  /\ pc = "default"
  /\ response' = [status |-> 200, body |-> OriginalURI(buffer, mime, parsed)]
  /\ runs' = Append(runs, RunRecord("original", response'))
  /\ pc' = "done"
  /\ UNCHANGED serverVars
  /\ UNCHANGED << impl, gen, buffer, mime, parsed, analysis, bgHex, flattened,
                  pngOut, caught, ran >>

\* a later request is served what this one sent: the pipeline runs on its
\* own output
Resubmit ==
  /\ pc = "done"
  /\ Len(runs) < MaxRuns
  /\ buffer' = FromBase64(response.body.base64)
  /\ mime' = response.body.mime
  /\ pc' = "start"
  /\ parsed' = NULL
  /\ analysis' = NoAnalysis
  /\ bgHex' = << >>
  /\ flattened' = << >>
  /\ pngOut' = << >>
  /\ caught' = "none"
  /\ ran' = {}
  /\ response' = NoResponse
  /\ UNCHANGED serverVars
  /\ UNCHANGED << impl, gen, runs >>

Next ==
  \/ NotPng
  \/ Decode
  \/ Analyze
  \/ Decide
  \/ Compose
  \/ ComposeThrows
  \/ Encode
  \/ EncodeThrows
  \/ SendFlattened
  \/ SendOriginal
  \/ Resubmit

Spec == Init /\ [][Next]_vars


(***************************************************************************)
(* The handler as a whole, for several requests served by one process.     *)
(* Every await of the handler is a point where another request may run.    *)
(* The first handler is lines 412-612, the second lines 981-1175.          *)
(***************************************************************************)
MaxRequests == 2    \* the requests one process serves

Reqs == 1..MaxRequests

\* req.query.silent as sent
SilentParams == {"true", "1", "absent"}

\* a domain with an entry in customFavicons and one without
CUSTOM_DOMAIN == "github.com"
Domains == {CUSTOM_DOMAIN, "example.org"}

\* what a fetch can deliver: a PNG that is flattened, and the same bytes
\* under another media type, which are not
ClearIcon == encodePNG(CLEAR \o CLEAR, 2, 1)

HandlerInputs ==
  { [bytes |-> ClearIcon, mime |-> PNG_MIME],
    [bytes |-> ClearIcon, mime |-> "image/x-icon"] }

NoFetch == [bytes |-> << >>, mime |-> ""]

\* res.status(...).send('...')
TextResponse(status, text) == [status |-> status, body |-> [text |-> text]]

IdleRequest ==
  [ pc |-> "idle", query |-> "absent", domain |-> "", fetched |-> NoFetch,
    caught |-> FALSE, posted |-> "none", pending |-> NoResponse,
    response |-> NoResponse ]


\* a variant of the test below that knows only 'true'
IsSilentTrueOnly(q) == q = "true"

\* const silent = req.query.silent === 'true' || req.query.silent === '1'
IsSilent(q) == q = "true" \/ q = "1"

\* a variant of the report below that lets a failed post out
ReportRethrows(ok, sent, fallback) == IF ok THEN sent ELSE fallback

\* a variant of the report below after which a failed post leaves the handler
\* with nothing sent
ReportLost(ok, sent, fallback) == IF ok THEN sent ELSE NoResponse

\* reportToFormspree: its try/catch keeps a failed post to itself, so the
\* caller goes on to send what it was about to send
reportToFormspree(ok, sent, fallback) == sent

\* the request r, its fields set as in the record changes
Set(r, changes) ==
  [requests EXCEPT ![r] = [f \in DOMAIN @ |->
      IF f \in DOMAIN changes THEN changes[f] ELSE @[f]]]

\* if (!rawParam) { res.status(400).send('Missing fetch param'); return; }
MissingParam(r) ==
  /\ requests[r].pc = "idle"
  /\ requests' = Set(r, [pc |-> "done",
                         response |-> TextResponse(400, "Missing fetch param")])
  /\ UNCHANGED << reportedDomains, posts, processed, results, winningSource,
                  impl, stepVars >>

\* the synchronous head of the handler, up to its first await (a fetch)
Receive(r) ==
  /\ requests[r].pc = "idle"
  /\ \E q \in SilentParams, d \in Domains :
       requests' = Set(r, [pc |-> "fetching", query |-> q, domain |-> d])
  /\ UNCHANGED << reportedDomains, posts, processed, results, winningSource,
                  impl, stepVars >>

\* the outer catch: the server_error report, unless silent, then the 500
FetchThrows(r) ==
  LET q == requests[r]
      error == TextResponse(500, "Server error")
  IN  /\ q.pc = "fetching"
      /\ IF ~IsSilent(q.query)
         THEN /\ posts' = posts \cup {[event |-> "server_error", domain |-> q.domain, by |-> r]}
              /\ requests' = Set(r, [pc |-> "reportingError", pending |-> error])
         ELSE /\ posts' = posts
              /\ requests' = Set(r, [pc |-> "done", response |-> error])
      /\ UNCHANGED << reportedDomains, processed, results, winningSource,
                  impl, stepVars >>

\* no source answers with an image (first handler: 404); Google's answer is
\* not ok (second handler: its status)
SourcesFail(r) ==
  LET q == requests[r]
  IN  /\ q.pc = "fetching"
      /\ q.domain # CUSTOM_DOMAIN
      /\ \E status \in (IF impl = 1 THEN {404} ELSE {404, 503}) :
           LET failed == TextResponse(status, "Favicon fetch failed")
               event  == IF impl = 1 THEN "all_sources_failed" ELSE "google_404_or_4xx"
           IN  IF /\ ~IsSilent(q.query)
                  /\ status \in 400..499
                  /\ q.domain \notin reportedDomains
               THEN /\ posts' = posts \cup {[event |-> event, domain |-> q.domain, by |-> r]}
                    /\ requests' = Set(r, [pc |-> "reportingFailed", pending |-> failed])
               ELSE /\ posts' = posts
                    /\ requests' = Set(r, [pc |-> "done", response |-> failed])
      /\ UNCHANGED << reportedDomains, processed, results, winningSource,
                  impl, stepVars >>

\* a fetch answers with an image; the handler awaits its body
FetchOk(r) ==
  /\ requests[r].pc = "fetching"
  /\ \E inp \in HandlerInputs :
       requests' = Set(r, [pc |-> "process", fetched |-> inp])
  /\ UNCHANGED << reportedDomains, posts, processed, results, winningSource,
                  impl, stepVars >>

\* the processing step gets as far as flattening
Flattens(inp) ==
  /\ IsPng(inp.mime)
  /\ parsePNG(inp.bytes).ok
  /\ RatioAtLeastThreshold(analyzeRGBA(parsePNG(inp.bytes).data).transparentRatio)

\* outDataURI
FlattenedOf(i, inp) ==
  LET p == parsePNG(inp.bytes)
      a == analyzeRGBA(p.data)
  IN  FlattenedURI(encodePNG(CallFlatten(i, p, ChooseBackground(i, a.avgLuma)),
                             p.width, p.height))

\* the default return: res.status(200).send(originalURI)
OriginalOf(inp) ==
  [status |-> 200, body |-> OriginalURI(inp.bytes, inp.mime, parsePNG(inp.bytes))]

\* what the processing step of handler i makes of each input.  It depends on
\* nothing else, so it is worked out once, when the process starts, and read
\* from processed after that.
ProcessingOf(i, inp) ==
  [ inp |-> inp, flattens |-> Flattens(inp),
    original |-> OriginalOf(inp),
    flattened |-> IF Flattens(inp)
                  THEN [status |-> 200, body |-> FlattenedOf(i, inp)]
                  ELSE NoResponse ]

Processings(i, inputs) == { ProcessingOf(i, inp) : inp \in inputs }

Processing(inp) == CHOOSE p \in processed : p.inp = inp

\* the process as it starts, the images in inputs being those on offer
HandlerStart(inputs) ==
  /\ impl \in {1, 2}
  /\ requests = [r \in Reqs |-> IdleRequest]
  /\ reportedDomains = {}
  /\ posts = {}
  /\ processed = Processings(impl, inputs)
  /\ results = << >>
  /\ winningSource = ""
  /\ gen = Stream("none", << >>)
  /\ buffer = << >>
  /\ mime = ""
  /\ pc = "handler"
  /\ parsed = NULL
  /\ analysis = NoAnalysis
  /\ bgHex = << >>
  /\ flattened = << >>
  /\ pngOut = << >>
  /\ caught = "none"
  /\ ran = {}
  /\ response = NoResponse
  /\ runs = << >>

HandlerInit == HandlerStart(HandlerInputs)

\* the processing step ends at the default return: the image as fetched
PassThrough(r) ==
  LET q == requests[r]
  IN  /\ q.pc = "process"
      /\ ~Processing(q.fetched).flattens
      /\ requests' = Set(r, [pc |-> "done",
                             response |-> Processing(q.fetched).original])
      /\ UNCHANGED << reportedDomains, posts, processed, results, winningSource,
                  impl, stepVars >>

\* flattenRGBA or encodePNG throws: the inner catch, then the default return
FlattenThrows(r) ==
  LET q == requests[r]
  IN  /\ q.pc = "process"
      /\ Processing(q.fetched).flattens
      /\ requests' = Set(r, [pc |-> "done", caught |-> TRUE,
                             response |-> Processing(q.fetched).original])
      /\ UNCHANGED << reportedDomains, posts, processed, results, winningSource,
                  impl, stepVars >>

\* the image is flattened; if (!silent && !reportedDomains.has(domain)) the
\* report is posted and awaited before the flattened image is sent
Flatten(r) ==
  LET q == requests[r]
      out == Processing(q.fetched).flattened
  IN  /\ q.pc = "process"
      /\ Processing(q.fetched).flattens
      /\ IF ~IsSilent(q.query) /\ q.domain \notin reportedDomains
         THEN /\ posts' = posts \cup {[event |-> "flattened", domain |-> q.domain, by |-> r]}
              /\ requests' = Set(r, [pc |-> "reportingFlattened", pending |-> out])
         ELSE /\ posts' = posts
              /\ requests' = Set(r, [pc |-> "done", response |-> out])
      /\ UNCHANGED << reportedDomains, processed, results, winningSource,
                  impl, stepVars >>

\* where a failed post would leave the handler if it were let out: the inner
\* catch (the image as fetched) or the outer one
Fallback(q) ==
  IF q.pc = "reportingFlattened"
  THEN Processing(q.fetched).original
  ELSE TextResponse(500, "Server error")

\* the awaited post settles, well or not: reportedDomains.add(domain), and
\* the handler sends what it held
ReportSettles(r) ==
  LET q == requests[r]
  IN  /\ q.pc \in {"reportingFlattened", "reportingFailed"}
      /\ \E ok \in BOOLEAN :
           requests' = Set(r, [pc |-> "done",
                                posted |-> IF ok THEN "ok" ELSE "failed",
                                response |-> reportToFormspree(ok, q.pending, Fallback(q))])
      /\ reportedDomains' = reportedDomains \cup {q.domain}
      /\ UNCHANGED << posts, processed, results, winningSource,
                  impl, stepVars >>

\* the server_error post settles: res.status(500).send('Server error')
ErrorReportSettles(r) ==
  LET q == requests[r]
  IN  /\ q.pc = "reportingError"
      /\ \E ok \in BOOLEAN :
           requests' = Set(r, [pc |-> "done",
                                posted |-> IF ok THEN "ok" ELSE "failed",
                                response |-> q.pending])
      /\ UNCHANGED << reportedDomains, posts, processed, results, winningSource,
                  impl, stepVars >>

HandlerNext ==
  \E r \in Reqs :
    \/ MissingParam(r)
    \/ Receive(r)
    \/ FetchThrows(r)
    \/ SourcesFail(r)
    \/ FetchOk(r)
    \/ PassThrough(r)
    \/ FlattenThrows(r)
    \/ Flatten(r)
    \/ ReportSettles(r)
    \/ ErrorReportSettles(r)

HandlerSpec == HandlerInit /\ [][HandlerNext]_vars

(***************************************************************************)
(* The claims of the specification, each as a property of Spec.            *)
(***************************************************************************)

\* what a reader of the response gets: the media type and the bytes
Sent(resp) == [mime |-> resp.body.mime, bytes |-> FromBase64(resp.body.base64)]

\* the input of the current run, as a reader would get it had it been sent
\* as it came
Original == [mime |-> mime, bytes |-> buffer]

Stages == {"decoder", "analyzer", "compositor", "encoder"}

\* C1: when the declared media type is not exactly image/png, no stage of
\* the pipeline (decoder, analyzer, compositor, encoder) is ever entered,
\* and what is sent is the input bytes with the input media type.
C1_NonPngPassesThrough ==
  mime # "image/png" =>
    /\ ran \cap Stages = {}
    /\ pc \in {"start", "default", "done"}
    /\ pc = "done" => response.status = 200 /\ Sent(response) = Original

\* a fully transparent 2x2 PNG declared as image/x-icon went out as it came
C1_Witness ==
  /\ pc = "done"
  /\ Len(runs) = 1
  /\ mime = "image/x-icon"
  /\ gen.family = "grid" /\ gen.w = 2 /\ gen.h = 2
  /\ \A i \in 1..16 : gen.rgba[i] = 0
  /\ Sent(response) = Original

\* C2: the pipeline is total.  Every run that ends has sent, with status
\* 200, either the flattened PNG or the input as it came; when the decoder
\* returned null, or the compositor or the encoder threw after a good
\* decode, it is the input bytes with the input media type (not the decoded
\* pixels), and no error.
C2_FailuresFallBack ==
  pc = "done" =>
    /\ response.status = 200
    /\ \/ Sent(response) = Original
       \/ Sent(response) = [mime |-> "image/png", bytes |-> pngOut]
    /\ (mime = "image/png" /\ (~parsed.ok \/ caught # "none"))
         => Sent(response) = Original

\* the encoder threw on a flattened image and the input went out as it came
C2_Witness ==
  /\ pc = "done"
  /\ caught = "encodePNG"
  /\ parsed.ok
  /\ Len(flattened) > 0
  /\ "encoder" \in ran
  /\ Sent(response) = Original

\* C3: when the decoder returned an image and neither compositor nor
\* encoder threw, the flattened PNG is sent as image/png exactly when at
\* least half of the pixels are transparent (exactly half included);
\* otherwise the input bytes are sent with the declared media type.
C3_ThresholdDecides ==
  (pc = "done" /\ mime = "image/png" /\ parsed.ok /\ caught = "none") =>
    IF 2 * analysis.transparentRatio.num >= analysis.transparentRatio.den
    THEN /\ Stages \subseteq ran
         /\ pngOut = encodePNG(flattened, parsed.width, parsed.height)
         /\ Sent(response) = [mime |-> "image/png", bytes |-> pngOut]
    ELSE /\ ran = {"decoder", "analyzer"}
         /\ Sent(response) = Original

\* an image with exactly half of its pixels transparent went out flattened
C3_Witness ==
  /\ pc = "done"
  /\ parsed.ok
  /\ "analyzer" \in ran
  /\ 2 * analysis.transparentRatio.num = analysis.transparentRatio.den
  /\ Len(pngOut) > 0
  /\ Sent(response) = [mime |-> "image/png", bytes |-> pngOut]

\* C4: idempotence.  A run on the output of a run that flattened decodes
\* it, finds no transparent pixel (ratio 0), enters neither compositor nor
\* encoder, and sends exactly the bytes it was given.
C4_FlattenedIsFixedPoint ==
  \A i \in 1..(Len(runs) - 1) :
    runs[i].outcome = "flattened" =>
      LET again == runs[i + 1]
          given == [mime |-> runs[i].output.mime,
                    bytes |-> FromBase64(runs[i].output.base64)]
      IN  /\ again.input = given
          /\ again.decoded
          /\ again.ran = {"decoder", "analyzer"}
          /\ again.analysis.transparentRatio.num = 0
          /\ again.outcome = "original"
          /\ again.output = runs[i].output

\* a flattened output was run again and passed through
C4_Witness ==
  /\ Len(runs) = 2
  /\ runs[1].outcome = "flattened"
  /\ runs[2].outcome = "original"
  /\ runs[2].decoded
  /\ runs[2].output = runs[1].output


\* the compositor has returned in this run
Composed == "compositor" \in ran /\ caught # "flattenRGBA"

\* the three bytes of the background in use
BackgroundRGB ==
  CASE bgHex = WHITE_HEX -> <<255, 255, 255>>
    [] bgHex = DARK_HEX  -> <<31, 31, 31>>
    [] bgHex = BLACK_HEX -> <<0, 0, 0>>

\* R, G, B of pixel p (from 0) of a buffer
RGBAt(buf, p) == <<buf[4 * p + 1], buf[4 * p + 2], buf[4 * p + 3]>>

\* the destination pixel dst is an opaque copy of the source pixel src when
\* that one is opaque, and the background when that one is fully transparent
KeepsOrClears(dst, src) ==
  /\ parsed.data[4 * src + 4] = 255 => RGBAt(flattened, dst) = RGBAt(parsed.data, src)
  /\ parsed.data[4 * src + 4] = 0 => RGBAt(flattened, dst) = BackgroundRGB

\* C5 as stated: after flattening, every pixel whose source alpha is 255
\* has its source R, G, B at the same position, and every pixel whose source
\* alpha is 0 is the background colour.  It fails for the compositor of
\* lines 329-387, which draws the image at 0.8 of its size.
C5_AsStated ==
  Composed => \A p \in 0..(parsed.width * parsed.height - 1) : KeepsOrClears(p, p)

\* C5, amended: the full-bleed compositor (lines 939-956) keeps every
\* opaque pixel's R, G, B at its position and turns every fully transparent
\* pixel into the background.  The shrink-and-center compositor (lines
\* 329-387) does so for the source pixel it samples into each pixel of the
\* scaled region, and leaves the background everywhere outside the region.
C5_OpaqueKeptClearFilled ==
  Composed =>
    LET w  == parsed.width
        h  == parsed.height
        sw == (4 * w) \div 5
        sh == (4 * h) \div 5
        ox == (w - sw) \div 2
        oy == (h - sh) \div 2
        min(a, b) == IF a < b THEN a ELSE b
    IN  IF impl = 2
        THEN \A p \in 0..(w * h - 1) : KeepsOrClears(p, p)
        ELSE \A dx \in 0..(w - 1), dy \in 0..(h - 1) :
               IF dx \in ox..(ox + sw - 1) /\ dy \in oy..(oy + sh - 1)
               THEN KeepsOrClears(dy * w + dx,
                                  min((5 * (dy - oy)) \div 4, h - 1) * w
                                    + min((5 * (dx - ox)) \div 4, w - 1))
               ELSE RGBAt(flattened, dy * w + dx) = BackgroundRGB

\* two opaque black and two clear pixels, composed full-bleed: the black
\* stay black, the clear ones are the (white) background
C5_Witness ==
  /\ pc = "encode"
  /\ impl = 2
  /\ parsed.width = 2 /\ parsed.height = 2
  /\ parsed.data = BLACK \o CLEAR \o CLEAR \o BLACK
  /\ flattened = <<0, 0, 0, 255, 255, 255, 255, 255, 255, 255, 255, 255, 0, 0, 0, 255>>

\* C6: the compositor returns a buffer of exactly width * height * 4
\* bytes, every pixel's alpha byte 255, and leaves its input buffer as it
\* was.
C6_NewOpaqueBuffer ==
  [][ (pc = "flatten" /\ pc' = "encode") =>
        /\ Len(flattened') = parsed.width * parsed.height * 4
        /\ \A i \in 1..Len(flattened') : flattened'[i] \in 0..255
        /\ \A p \in 1..(parsed.width * parsed.height) : flattened'[4 * p] = 255
        /\ parsed' = parsed ]_vars

\* a 2 x 2 image with a clear first pixel, composed by the shrinking
\* compositor into 16 bytes with every alpha 255
C6_Witness ==
  /\ pc = "encode"
  /\ impl = 1
  /\ parsed.width = 2 /\ parsed.height = 2
  /\ parsed.data[4] = 0
  /\ Len(flattened) = 16
  /\ \A p \in 1..4 : flattened[4 * p] = 255

\* C7: round trip.  Decoding what the encoder made of a width, a height
\* and a buffer of width * height * 4 bytes succeeds and returns that width,
\* that height and that buffer, byte for byte.
C7_RoundTrip ==
  (gen.encoded /\ Len(runs) = 0 /\ "decoder" \in ran) =>
    parsed = [ok |-> TRUE, width |-> gen.w, height |-> gen.h, data |-> gen.rgba]

\* a 5 x 6 image of mixed alphas came back from the decoder as it was encoded
C7_Witness ==
  /\ pc = "decoded"
  /\ Len(runs) = 0
  /\ gen.encoded
  /\ gen.w = 5 /\ gen.h = 6
  /\ \E i, j \in 1..30 : gen.rgba[4 * i] < 128 /\ gen.rgba[4 * j] > 128
  /\ parsed.data = gen.rgba

\* C8: the analyzer counts a pixel as transparent exactly when its alpha
\* is below 128; transparentRatio is that count over the number of pixels
\* and lies in [0, 1]; avgLuma lies in [0, 255]; and avgLuma is exactly 255
\* when no pixel has alpha >= 128.
C8_AnalyzerRanges ==
  "analyzer" \in ran =>
    LET n      == Len(parsed.data) \div 4
        clear  == {p \in 1..n : parsed.data[4 * p] < 128}
        opaque == {p \in 1..n : parsed.data[4 * p] >= 128}
        ratio  == analysis.transparentRatio
        luma   == analysis.avgLuma
    IN  /\ ratio.num = Cardinality(clear)
        /\ ratio.den = IF n = 0 THEN 1 ELSE n
        /\ 0 <= ratio.num /\ ratio.num <= ratio.den
        /\ luma.den > 0
        /\ 0 <= luma.num /\ luma.num <= 255 * LUMA_SCALE * luma.den
        /\ opaque = {} => luma.num = 255 * LUMA_SCALE * luma.den

\* two pixels of alpha 127 and 0: both counted transparent, and the
\* luminance at its default of 255
C8_Witness ==
  /\ pc = "analyzed"
  /\ Len(parsed.data) = 8
  /\ parsed.data[4] = 127 /\ parsed.data[8] = 0
  /\ analysis.transparentRatio = [num |-> 2, den |-> 2]
  /\ analysis.avgLuma = [num |-> 255 * LUMA_SCALE, den |-> 1]

\* the chunks of a described stream that the chunk loop reads: those up to
\* its first IEND
ReadChunks(d) ==
  {i \in 1..Len(d.chunks) : \A j \in 1..(i - 1) : d.chunks[j].type # "IEND"}

\* the data of the IDAT chunks read, in order
IdatOf(d) ==
  LET idats == SelectSeq([i \in 1..Len(d.chunks) |-> <<i, d.chunks[i]>>],
                         LAMBDA c : c[1] \in ReadChunks(d) /\ c[2].type = "IDAT")
  IN  Concat([i \in 1..Len(idats) |-> idats[i][2].data])

\* the colour type of the last IHDR read
ColourTypeOf(d) ==
  LET hs == {i \in ReadChunks(d) : d.chunks[i].type = "IHDR"}
      last == CHOOSE i \in hs : \A j \in hs : j <= i
  IN  d.chunks[last].data[10]

\* C9: whenever the decoder returns an image, its buffer has exactly
\* width * height * 4 bytes; and it returns one only if the inflated IDAT
\* stream holds, for each of the height rows, a filter byte in 0..4 followed
\* by width * channels bytes.
C9_RowsWellFormed ==
  parsed.ok =>
    /\ Len(parsed.data) = parsed.width * parsed.height * 4
    /\ (Len(runs) = 0 /\ ~gen.encoded /\ gen.cut = 0) =>
         LET z   == inflateSync(IdatOf(gen))
             ct  == ColourTypeOf(gen)
             row == 1 + parsed.width * (CASE ct = 6 -> 4 [] ct = 2 -> 3
                                          [] ct \in {0, 3} -> 1)
         IN  /\ ~z.throws
             /\ \A y \in 0..(parsed.height - 1) :
                  /\ (y + 1) * row <= Len(z.data)
                  /\ z.data[y * row + 1] \in 0..4

\* a 2 x 2 RGB image whose rows are filtered by Paeth and Average decoded
C9_Witness ==
  /\ pc = "decoded"
  /\ Len(runs) = 0
  /\ gen.family = "filter"
  /\ ColourTypeOf(gen) = 2
  /\ inflateSync(IdatOf(gen)).data[1] = 4
  /\ inflateSync(IdatOf(gen)).data[8] = 3
  /\ parsed.ok
  /\ Len(parsed.data) = 16

\* C10 as stated: the decoder fails for every stream whose first chunk is
\* not IHDR, and for every stream with more than one IHDR before IEND.  It
\* does not: the chunk loop takes an IHDR wherever it stands and lets a
\* later one replace an earlier one.
C10_AsStated ==
  ( /\ Len(runs) = 0 /\ ~gen.encoded /\ gen.cut = 0
    /\ "decoder" \in ran
    /\ Len(gen.chunks) > 0
    /\ \/ gen.chunks[1].type # "IHDR"
       \/ Cardinality({i \in ReadChunks(gen) : gen.chunks[i].type = "IHDR"}) > 1 )
  => ~parsed.ok


\* the data of the last IHDR the chunk loop reads from a described stream
HeaderOf(d) ==
  LET hs == {i \in ReadChunks(d) : d.chunks[i].type = "IHDR"}
      last == CHOOSE i \in hs : \A j \in hs : j <= i
  IN  d.chunks[last].data

\* a described stream, whole, with a full IHDR, that this (first) run decoded
\* or failed to decode
DecodedDescribed ==
  /\ Len(runs) = 0 /\ ~gen.encoded /\ gen.cut = 0 /\ gen.sig = PNG_SIG
  /\ "decoder" \in ran
  /\ \E i \in ReadChunks(gen) : gen.chunks[i].type = "IHDR"
  /\ Len(HeaderOf(gen)) >= 13

\* C11 as stated: the decoder fails for every stream whose IHDR declares
\* width 0 or height 0, and never returns an image of zero pixels.  It does
\* not: nothing in parsePNG tests the width or the height, and with height 0
\* the scanline loop is never entered.
C11_AsStated ==
  /\ ( /\ DecodedDescribed
       /\ \/ readUInt32BE(HeaderOf(gen), 0) = 0
          \/ readUInt32BE(HeaderOf(gen), 4) = 0 ) => ~parsed.ok
  /\ parsed.ok => parsed.width * parsed.height > 0


\* C12: the decoder fails for every stream whose IHDR has a bit depth other
\* than 8, an interlace, compression or filter method other than 0, or a
\* colour type outside {0, 2, 3, 6}; it returns null and nothing escapes it.
C12_UnsupportedHeaderFails ==
  ( /\ DecodedDescribed
    /\ LET hd == HeaderOf(gen)
       IN  \/ hd[9] # 8
           \/ hd[10] \notin {0, 2, 3, 6}
           \/ hd[11] # 0
           \/ hd[12] # 0
           \/ hd[13] # 0 )
  => /\ parsed = NULL
     /\ pc \in {"default", "done"}
     /\ pc = "done" => response.status = 200 /\ Sent(response) = Original

\* a stream of colour type 4 (gray with alpha) was refused and sent on as it
\* came
C12_Witness ==
  /\ pc = "done"
  /\ Len(runs) = 1
  /\ gen.family = "header"
  /\ mime = "image/png"
  /\ HeaderOf(gen)[9] = 8 /\ HeaderOf(gen)[10] = 4
  /\ "decoder" \in ran
  /\ parsed = NULL
  /\ Sent(response) = Original


\* the length of a described stream up to the end of its first IEND chunk
EndLen(d) ==
  LET size[i \in 0..Len(d.chunks)] ==
        IF i = 0 THEN Len(d.sig)
        ELSE size[i - 1] + (IF i \in ReadChunks(d) THEN 12 + Len(d.chunks[i].data) ELSE 0)
  IN  size[Len(d.chunks)]

HasEnd(d) == \E i \in 1..Len(d.chunks) : d.chunks[i].type = "IEND"

\* C13: the decoder fails for every buffer shorter than 8 bytes, for every
\* buffer that does not start with the PNG signature, and for every buffer
\* that ends before the end of an IEND chunk (within a chunk's header, its
\* data or its CRC, or after a whole chunk that is not IEND); the chunk loop
\* stops at the first IEND, so what follows it changes nothing.
C13_FramingFailures ==
  "decoder" \in ran =>
    /\ Len(buffer) < 8 => parsed = NULL
    /\ (Len(buffer) >= 8 /\ Slice(buffer, 0, 8) # <<137, 80, 78, 71, 13, 10, 26, 10>>)
         => parsed = NULL
    /\ (Len(runs) = 0 /\ ~gen.encoded /\ gen.sig = PNG_SIG) =>
         /\ (~HasEnd(gen) \/ Len(buffer) < EndLen(gen)) => parsed = NULL
         /\ (HasEnd(gen) /\ Len(buffer) >= EndLen(gen))
              => parsed = parsePNG(Slice(buffer, 0, EndLen(gen)))

\* the plain image cut inside the CRC of its IDAT chunk was refused and sent
\* on as it came
C13_Witness ==
  /\ pc = "done"
  /\ Len(runs) = 1
  /\ mime = "image/png"
  /\ gen.family = "framing" /\ gen.sig = PNG_SIG /\ gen.cut = 13
  /\ Len(buffer) = EndLen(gen) - 13
  /\ parsed = NULL
  /\ Sent(response) = Original


\* the number whose four big-endian bytes stand in out at offset (from 0)
FieldAt(out, offset) ==
  16777216 * out[offset + 1] + 65536 * out[offset + 2]
    + 256 * out[offset + 3] + out[offset + 4]

\* out is: the signature; an IHDR chunk of 13 bytes holding width, height,
\* 8, 6, 0, 0, 0; one IDAT chunk filling all that lies between; an empty IEND
\* chunk; every length field the length of its data; and the IDAT data
\* inflates to, for each row, a 0 and the row's width * 4 bytes of rgba
EncoderLayout(out, width, height, rgba) ==
  LET idatLen == Len(out) - 57
      z       == inflateSync(Slice(out, 41, 41 + idatLen))
      rowSize == 1 + 4 * width
  IN  /\ Len(out) >= 57
      /\ Slice(out, 0, 8) = <<137, 80, 78, 71, 13, 10, 26, 10>>
      /\ FieldAt(out, 8) = 13
      /\ Slice(out, 12, 16) = <<73, 72, 68, 82>>
      /\ FieldAt(out, 16) = width
      /\ FieldAt(out, 20) = height
      /\ Slice(out, 24, 29) = <<8, 6, 0, 0, 0>>
      /\ FieldAt(out, 33) = idatLen
      /\ Slice(out, 37, 41) = <<73, 68, 65, 84>>
      /\ FieldAt(out, Len(out) - 12) = 0
      /\ Slice(out, Len(out) - 8, Len(out) - 4) = <<73, 69, 78, 68>>
      /\ ~z.throws
      /\ Len(z.data) = height * rowSize
      /\ \A y \in 0..(height - 1) :
           /\ z.data[y * rowSize + 1] = 0
           /\ \A i \in 1..(4 * width) :
                z.data[y * rowSize + 1 + i] = rgba[y * 4 * width + i]

\* C14: the encoder emits exactly the signature, one IHDR chunk (width,
\* height, bit depth 8, colour type 6, compression 0, filter 0, interlace
\* 0), one IDAT chunk and one empty IEND chunk, in that order, each length
\* field equal to its data length; the inflated IDAT data is, row by row, the
\* filter byte 0 and the row's width * 4 RGBA bytes.
C14_EncoderLayout ==
  /\ (gen.encoded /\ Len(runs) = 0) => EncoderLayout(buffer, gen.w, gen.h, gen.rgba)
  /\ (pc \in {"send", "done"} /\ "encoder" \in ran /\ caught = "none")
       => EncoderLayout(pngOut, parsed.width, parsed.height, flattened)

\* a flattened 2 x 2 image was encoded: 57 bytes of framing and the stored
\* zlib stream of its two rows
C14_Witness ==
  /\ pc = "send"
  /\ parsed.width = 2 /\ parsed.height = 2
  /\ Len(flattened) = 16
  /\ FieldAt(pngOut, 16) = 2 /\ FieldAt(pngOut, 20) = 2
  /\ FieldAt(pngOut, 33) = Len(pngOut) - 57
  /\ inflateSync(Slice(pngOut, 41, Len(pngOut) - 16)).data
       = <<0>> \o Slice(flattened, 0, 8) \o <<0>> \o Slice(flattened, 8, 16)


\* The reference CRC-32, from its definition: the register is 32 bits, bit 1
\* the lowest; the generator x^32 + x^26 + x^23 + x^22 + x^16 + x^12 + x^11
\* + x^10 + x^8 + x^7 + x^5 + x^4 + x^2 + x + 1, reflected, has the
\* coefficient of x^e at bit 32 - e (0xEDB88320).
GeneratorExponents == {0, 1, 2, 4, 5, 7, 8, 10, 11, 12, 16, 22, 23, 26}

\* the register after one more message bit
RefBit(reg, bit) ==
  LET feedback == (reg[1] # bit)
  IN  [i \in 1..32 |->
         LET shifted == IF i < 32 THEN reg[i + 1] ELSE FALSE
         IN  IF feedback THEN shifted # ((32 - i) \in GeneratorExponents)
             ELSE shifted]

\* the register after the message bits lo..hi (bit k, from 0, is bit k mod 8,
\* lowest first, of byte k div 8)
RECURSIVE RefBits(_, _, _, _)
RefBits(msg, lo, hi, reg) ==
  IF lo > hi THEN reg
  ELSE IF lo = hi
    THEN RefBit(reg, (msg[lo \div 8 + 1] \div (2 ^ (lo % 8))) % 2 = 1)
  ELSE LET mid == (lo + hi) \div 2
           first == RefBits(msg, lo, mid, reg)
       IN  IF first[1] \in BOOLEAN THEN RefBits(msg, mid + 1, hi, first) ELSE first

\* initial value all ones, final complement, written big-endian
RefCrc(msg) ==
  LET reg == RefBits(msg, 0, 8 * Len(msg) - 1, [i \in 1..32 |-> TRUE])
      bitOf(i) == IF reg[i] THEN 0 ELSE 1
  IN  [k \in 1..4 |->
         LET low == 8 * (4 - k)
         IN  bitOf(low + 1) + 2 * bitOf(low + 2) + 4 * bitOf(low + 3)
             + 8 * bitOf(low + 4) + 16 * bitOf(low + 5) + 32 * bitOf(low + 6)
             + 64 * bitOf(low + 7) + 128 * bitOf(low + 8)]

\* each of the three chunks of an encoder output ends with the reference CRC
\* of its type and data
ChunksChecksummed(out) ==
  LET n == Len(out)
  IN  /\ Slice(out, 29, 33) = RefCrc(Slice(out, 12, 29))
      /\ Slice(out, n - 16, n - 12) = RefCrc(Slice(out, 37, n - 16))
      /\ Slice(out, n - 4, n) = RefCrc(<<73, 69, 78, 68>>)
      /\ Slice(out, n - 4, n) = <<174, 66, 96, 130>>
      /\ \A i \in {30, 31, 32, 33, n - 15, n - 14, n - 13, n - 12} : out[i] \in 0..255

\* C15: every chunk the encoder writes ends with the big-endian CRC-32
\* (reflected polynomial 0xEDB88320, initial value 0xFFFFFFFF, final XOR
\* 0xFFFFFFFF, a value of 32 bits) of its type followed by its data; the CRC
\* of IEND with no data is 0xAE426082.
\* (Each encoder output is looked at once: a flattened image when the first
\* run is about to send it, and the encoded inputs of the edge and pattern
\* families in the state that starts on them under the first handler and
\* image/png.)
C15_ChunkCrc ==
  /\ (/\ gen.encoded /\ gen.family \in {"edge", "pattern"}
      /\ pc = "start" /\ Len(runs) = 0 /\ impl = 1 /\ mime = "image/png")
       => ChunksChecksummed(buffer)
  /\ (pc = "send" /\ Len(runs) = 0) => ChunksChecksummed(pngOut)

\* a flattened 2 x 2 image was encoded and its IDAT chunk carries the
\* reference CRC of its 4 + 29 bytes
C15_Witness ==
  /\ pc = "send"
  /\ Len(flattened) = 16
  /\ Len(pngOut) = 86
  /\ Slice(pngOut, 70, 74) = RefCrc(Slice(pngOut, 37, 70))
  /\ Slice(pngOut, 82, 86) = <<174, 66, 96, 130>>


\* the opaque pixels (alpha >= 128) of the decoded image, and 10000 times the
\* sum of their luminances 0.2126 R + 0.7152 G + 0.0722 B
OpaquePixels == {p \in 0..(Len(parsed.data) \div 4 - 1) : parsed.data[4 * p + 4] >= 128}

OpaqueLumaSum ==
  LET n == Len(parsed.data) \div 4
      sum[p \in 0..n] ==
        IF p = 0 THEN 0
        ELSE sum[p - 1]
             + (IF (p - 1) \in OpaquePixels
                THEN 2126 * parsed.data[4 * p - 3] + 7152 * parsed.data[4 * p - 2]
                     + 722 * parsed.data[4 * p - 1]
                ELSE 0)
  IN  sum[n]

\* C16: when the pipeline flattens, the background is #ffffff if the mean
\* luminance of the opaque pixels is below 128 and the dark colour (#1f1f1f
\* in the first handler, #000000 in the second) otherwise, a mean of exactly
\* 128 included; an image without opaque pixels (mean defaulted to 255) is
\* flattened onto the dark colour.
C16_BackgroundChoice ==
  (pc \in {"flatten", "encode", "send"}) =>
    LET dark == IF impl = 1 THEN <<"#", "1", "f", "1", "f", "1", "f">>
                ELSE <<"#", "0", "0", "0", "0", "0", "0">>
        light == <<"#", "f", "f", "f", "f", "f", "f">>
        count == Cardinality(OpaquePixels)
    IN  /\ bgHex = IF count > 0 /\ OpaqueLumaSum < 128 * 10000 * count
                   THEN light ELSE dark
        /\ (Composed /\ \A p \in 1..(Len(parsed.data) \div 4) : parsed.data[4 * p] = 0)
             => /\ bgHex = dark
                /\ \A p \in 0..(Len(flattened) \div 4 - 1) :
                     RGBAt(flattened, p) = IF impl = 1 THEN <<31, 31, 31>> ELSE <<0, 0, 0>>

\* a fully transparent 2 x 2 image was flattened by the first handler onto
\* #1f1f1f
C16_Witness ==
  /\ pc = "encode"
  /\ impl = 1
  /\ parsed.data = CLEAR \o CLEAR \o CLEAR \o CLEAR
  /\ analysis.avgLuma = [num |-> 255 * LUMA_SCALE, den |-> 1]
  /\ bgHex = DARK_HEX
  /\ flattened = <<31, 31, 31, 255, 31, 31, 31, 255, 31, 31, 31, 255, 31, 31, 31, 255>>


(***************************************************************************)
(* One request to the first handler for a domain without a custom icon,    *)
(* with the parallel fetch of its three sources spelled out (lines         *)
(* 485-547); from the chosen response on it is the handler above.          *)
(***************************************************************************)

\* the names of const sources, in its order
SOURCES == << "clearbit", "google", "ddg" >>

\* the request followed
THE_REQUEST == 1

\* r.headers.get('content-type'), NO_HEADER when there is none
NO_HEADER == "none"
ContentTypes == {PNG_MIME, "application/octet-stream", "text/html", NO_HEADER}

\* what fetch(src.url) can come to: it rejects, or resolves to a response
SourceAnswers ==
  { [threw |-> TRUE] }
  \cup { [threw |-> FALSE, ok |-> ok, contentType |-> ct, body |-> ClearIcon] :
           ok \in BOOLEAN, ct \in ContentTypes }

\* contentType.startsWith('image/')
StartsWithImage(ct) == ct \in ImageTypes

\* the callback of sources.map: { r, src } for a 2xx response whose content
\* type is an image's or application/octet-stream, null otherwise and when
\* the fetch rejects
SourceCallback(answer, name) ==
  IF answer.threw THEN NULL
  ELSE IF /\ answer.ok
          /\ answer.contentType # NO_HEADER
          /\ (StartsWithImage(answer.contentType)
                \/ answer.contentType = "application/octet-stream")
       THEN [ok |-> TRUE, r |-> answer, src |-> name]
       ELSE NULL

Pending == [state |-> "pending"]

AllSettled == results # << >> /\ \A i \in DOMAIN results : results[i].state = "settled"

\* a variant of the choice below that takes the result that arrived first
FirstArrived(res) ==
  LET found == {i \in DOMAIN res : res[i].found.ok}
  IN  IF found = {} THEN 0
      ELSE CHOOSE i \in found : \A j \in found : res[i].at <= res[j].at

\* the loop over results: the index of the first that is not null, 0 if none
FirstFound(res) ==
  LET found == {i \in DOMAIN res : res[i].found.ok}
  IN  IF found = {} THEN 0
      ELSE CHOOSE i \in found : \A j \in found : i <= j

\* the bodies and content types a chosen source can deliver
SourceInputs ==
  { [bytes |-> a.body, mime |-> a.contentType] :
      a \in {b \in SourceAnswers : SourceCallback(b, "").ok} }

SourcesInit ==
  /\ HandlerStart(SourceInputs)
  /\ impl = 1

\* the handler up to sources.map(...): the three fetches are under way
StartFetches ==
  /\ requests[THE_REQUEST].pc = "idle"
  /\ \E q \in SilentParams, d \in Domains \ {CUSTOM_DOMAIN} :
       requests' = Set(THE_REQUEST, [pc |-> "fetching", query |-> q, domain |-> d])
  /\ results' = [i \in 1..Len(SOURCES) |-> Pending]
  /\ UNCHANGED << reportedDomains, posts, processed, winningSource, impl, stepVars >>

\* the fetch of source i settles and its callback returns
SourceSettles(i) ==
  /\ requests[THE_REQUEST].pc = "fetching"
  /\ results # << >>
  /\ results[i] = Pending
  /\ \E answer \in SourceAnswers :
       results' = [results EXCEPT ![i] =
          [ state |-> "settled",
            at |-> 1 + Cardinality({j \in DOMAIN results : results[j].state = "settled"}),
            answer |-> answer,
            found |-> SourceCallback(answer, SOURCES[i]) ]]
  /\ UNCHANGED << requests, reportedDomains, posts, processed, winningSource,
                  impl, stepVars >>

\* Promise.all resolves; the loop finds a result: winningResponse = found.r
ChooseSource ==
  /\ requests[THE_REQUEST].pc = "fetching"
  /\ AllSettled
  /\ winningSource = ""
  /\ FirstFound(results) # 0
  /\ winningSource' = results[FirstFound(results)].found.src
  /\ UNCHANGED << requests, reportedDomains, posts, processed, results, impl, stepVars >>

\* Promise.all resolves; the loop finds nothing: if (!winningResponse) ...
NoSource ==
  /\ AllSettled
  /\ FirstFound(results) = 0
  /\ SourcesFail(THE_REQUEST)

\* const arr = await winningResponse.arrayBuffer(); mime = content-type
ReadBody ==
  /\ requests[THE_REQUEST].pc = "fetching"
  /\ winningSource # ""
  /\ LET won == CHOOSE i \in DOMAIN results :
                  results[i].found.ok /\ results[i].found.src = winningSource
         r   == results[won].found.r
     IN  requests' = Set(THE_REQUEST,
                         [pc |-> "process",
                          fetched |-> [bytes |-> r.body, mime |-> r.contentType]])
  /\ UNCHANGED << reportedDomains, posts, processed, results, winningSource,
                  impl, stepVars >>

\* winningResponse.arrayBuffer() rejects: the outer catch
BodyThrows ==
  /\ winningSource # ""
  /\ FetchThrows(THE_REQUEST)

SourcesNext ==
  \/ MissingParam(THE_REQUEST)
  \/ StartFetches
  \/ \E i \in 1..Len(SOURCES) : SourceSettles(i)
  \/ ChooseSource
  \/ NoSource
  \/ ReadBody
  \/ BodyThrows
  \/ PassThrough(THE_REQUEST)
  \/ FlattenThrows(THE_REQUEST)
  \/ Flatten(THE_REQUEST)
  \/ ReportSettles(THE_REQUEST)
  \/ ErrorReportSettles(THE_REQUEST)

SourcesSpec == SourcesInit /\ [][SourcesNext]_vars

\* the fetch value names a custom icon, a remote one:
\* const r = await fetch(iconPath)
CustomFetch ==
  /\ requests[THE_REQUEST].pc = "idle"
  /\ \E q \in SilentParams :
       requests' = Set(THE_REQUEST,
                       [pc |-> "fetching", query |-> q, domain |-> CUSTOM_DOMAIN])
  /\ UNCHANGED << reportedDomains, posts, processed, results, winningSource,
                  impl, stepVars >>

\* the custom icon answers ok and its body is read: buffer and mime go to
\* the processing step
CustomOk ==
  /\ requests[THE_REQUEST].pc = "fetching"
  /\ requests[THE_REQUEST].domain = CUSTOM_DOMAIN
  /\ \E p \in processed :
       requests' = Set(THE_REQUEST, [pc |-> "process", fetched |-> p.inp])
  /\ UNCHANGED << reportedDomains, posts, processed, results, winningSource,
                  impl, stepVars >>

\* the fetch of the custom icon rejects, or if (!r.ok) throw new Error(...),
\* or its body cannot be read: the outer catch
CustomThrows ==
  /\ requests[THE_REQUEST].domain = CUSTOM_DOMAIN
  /\ FetchThrows(THE_REQUEST)

\* the whole handler of lines 412-612, for one request
FirstHandlerNext ==
  \/ SourcesNext
  \/ CustomFetch
  \/ CustomOk
  \/ CustomThrows

\* what the handler does after its synchronous head: the continuation of each
\* await (a fetch, Promise.all, a body, a report post) and the processing step
\* between them
Continue ==
  \/ \E i \in 1..Len(SOURCES) : SourceSettles(i)
  \/ ChooseSource
  \/ NoSource
  \/ ReadBody
  \/ BodyThrows
  \/ CustomOk
  \/ CustomThrows
  \/ PassThrough(THE_REQUEST)
  \/ FlattenThrows(THE_REQUEST)
  \/ Flatten(THE_REQUEST)
  \/ ReportSettles(THE_REQUEST)
  \/ ErrorReportSettles(THE_REQUEST)

\* Every promise the handler awaits settles (a fetch resolves or rejects, a
\* post resolves or is caught at lines 395-410), and the event loop runs the
\* continuation of a settled promise: a handler that can go on does go on.
FirstHandlerLive ==
  /\ SourcesInit
  /\ [][FirstHandlerNext]_vars
  /\ WF_vars(Continue)

(***************************************************************************)
(* The claims about the handler as a whole, each as a property of          *)
(* HandlerSpec.                                                            *)
(***************************************************************************)

\* the requests that fetched an image and have answered
Answered == {r \in Reqs : requests[r].pc = "done" /\ requests[r].fetched # NoFetch}

\* C17: reporting has no effect on the output: two requests that fetched the
\* same bytes under the same media type (and met the same fate in the
\* compositor and encoder) are sent the same status and body, whatever
\* silent was, whatever reportedDomains held and however the post ended.
C17_ReportingInvisible ==
  \A r1 \in Answered, r2 \in Answered :
    (/\ requests[r1].fetched = requests[r2].fetched
     /\ requests[r1].caught = requests[r2].caught)
      => requests[r1].response = requests[r2].response

\* two requests fetched the same image to flatten, one silent and the other
\* with a failed report, and both were sent the flattened image
C17_Witness ==
  /\ Reqs \subseteq Answered
  /\ requests[1].fetched = requests[2].fetched
  /\ Flattens(requests[1].fetched)
  /\ IsSilent(requests[1].query) /\ requests[1].posted = "none"
  /\ ~IsSilent(requests[2].query) /\ requests[2].posted = "failed"
  /\ requests[1].response = requests[2].response
  /\ requests[1].response = [status |-> 200, body |-> FlattenedOf(impl, requests[1].fetched)]


\* C18: a request with silent=true or silent=1 posts no report, on the
\* flattened path, the failed-sources path or the server-error path alike,
\* and adds nothing to reportedDomains: every post was made by a request that
\* was not silent, and every reported domain was reported by such a request.
C18_SilentNeverReports ==
  /\ \A p \in posts : requests[p.by].query \notin {"true", "1"}
  /\ \A d \in reportedDomains :
       \E p \in posts : p.domain = d /\ requests[p.by].query \notin {"true", "1"}

\* every request was silent, one with silent=1 was sent a flattened image and
\* another met a failure, and nothing was posted or recorded
C18_Witness ==
  /\ \A r \in Reqs : requests[r].pc = "done" /\ requests[r].query \in {"true", "1"}
  /\ \E r \in Reqs : /\ requests[r].query = "1"
                     /\ requests[r].fetched # NoFetch
                     /\ requests[r].response = Processing(requests[r].fetched).flattened
  /\ \E r \in Reqs : requests[r].response.status \in {404, 500}
  /\ posts = {}
  /\ reportedDomains = {}


\* the reports the set of reported domains is there to keep single
DedupedEvents == {"flattened", "all_sources_failed"}

\* C19 (as stated): whatever the interleaving of concurrent requests, at most
\* one flattened or all_sources_failed report is posted for a domain.  The
\* handler tests reportedDomains before the awaited post and adds to it after,
\* so a second request for the domain that runs during the await posts too.
C19_AsStated ==
  \A d \in Domains :
    Cardinality({p \in posts : p.domain = d /\ p.event \in DedupedEvents}) <= 1


\* the Paeth predictor as the PNG specification words it: of a, b and c, the
\* one nearest to a + b - c, the earlier of them on a tie
RefPaeth(a, b, c) ==
  LET near(v) == Abs(a + b - c - v)
      best    == CHOOSE m \in {near(a), near(b), near(c)} :
                   \A n \in {near(a), near(b), near(c)} : m <= n
  IN  IF near(a) = best THEN a ELSE IF near(b) = best THEN b ELSE c

\* the predictor of each filter type from the reconstructed neighbours
RefPredictor(ft, a, b, c) ==
  CASE ft = 0 -> 0
    [] ft = 1 -> a
    [] ft = 2 -> b
    [] ft = 3 -> (a + b) \div 2
    [] ft = 4 -> RefPaeth(a, b, c)

\* the first n reconstructed bytes of a scanline filtered by ft, above which
\* lies the reconstructed scanline prior (all zero above the first)
RECURSIVE RefLine(_, _, _, _, _)
RefLine(ft, filt, prior, bpp, n) ==
  IF n = 0 THEN << >>
  ELSE LET left == RefLine(ft, filt, prior, bpp, n - 1)
           a == IF n > bpp THEN left[n - bpp] ELSE 0
           b == prior[n]
           c == IF n > bpp THEN prior[n - bpp] ELSE 0
       IN  Append(left, (filt[n] + RefPredictor(ft, a, b, c)) % 256)

\* the reconstructed scanlines 0..y of the inflated stream z
RECURSIVE RefLines(_, _, _, _)
RefLines(z, rowBytes, bpp, y) ==
  LET above == IF y = 0 THEN << >> ELSE RefLines(z, rowBytes, bpp, y - 1)
      prior == IF y = 0 THEN [i \in 1..rowBytes |-> 0] ELSE above[y]
      start == y * (rowBytes + 1)
  IN  Append(above, RefLine(z[start + 1], SubSeq(z, start + 2, start + 1 + rowBytes),
                            prior, bpp, rowBytes))

\* the RGBA pixels of a reconstructed scanline of colour type 0, 2 or 6
RefPixels(ct, line) ==
  CASE ct = 6 -> line
    [] ct = 2 -> Concat([x \in 1..(Len(line) \div 3) |->
                   << line[3 * x - 2], line[3 * x - 1], line[3 * x], 255 >>])
    [] ct = 0 -> Concat([x \in 1..Len(line) |-> << line[x], line[x], line[x], 255 >>])

\* C20: what the decoder returns is the image the PNG defiltering rules give:
\* each scanline byte is the filtered byte plus the predictor of its filter
\* type (None 0, Sub a, Up b, Average floor((a + b) / 2), Paeth), modulo 256,
\* a, b and c being the reconstructed bytes to the left, above and above-left
\* (zero beyond the edges).
C20_Defiltering ==
  (/\ pc = "decoded" /\ DecodedDescribed /\ parsed.ok
   /\ ColourTypeOf(gen) \in {0, 2, 6} /\ parsed.height > 0) =>
    LET ct    == ColourTypeOf(gen)
        bpp   == CASE ct = 6 -> 4 [] ct = 2 -> 3 [] ct = 0 -> 1
        lines == RefLines(inflateSync(IdatOf(gen)).data, parsed.width * bpp, bpp,
                          parsed.height - 1)
    IN  parsed.data = Concat([y \in 1..parsed.height |-> RefPixels(ct, lines[y])])

\* a 2 x 2 RGBA image was decoded whose second row is filtered by Paeth and
\* has a byte with above and above-left equally near: the byte above is taken
C20_Witness ==
  /\ DecodedDescribed /\ parsed.ok
  /\ gen.family = "filter"
  /\ ColourTypeOf(gen) = 6
  /\ inflateSync(IdatOf(gen)).data[1] = 0
  /\ inflateSync(IdatOf(gen)).data[10] = 4
  /\ parsed.width = 2 /\ parsed.height = 2
  /\ LET a == parsed.data[10]
         b == parsed.data[6]
         c == parsed.data[2]
     IN  /\ Abs(a - c) = Abs(a + b - c - c) /\ b # c
         /\ parsed.data[14] = (inflateSync(IdatOf(gen)).data[16] + b) % 256


\* the data of the last chunk of type t read, or NULL when there is none
LastChunkOf(d, t) ==
  LET cs == {i \in ReadChunks(d) : d.chunks[i].type = t}
  IN  IF cs = {} THEN NULL
      ELSE [ok |-> TRUE, data |-> d.chunks[CHOOSE i \in cs : \A j \in cs : j <= i].data]

\* a described palette stream that this (first) run decoded or failed to
\* decode, its rows unfiltered
DecodedIndexed ==
  /\ DecodedDescribed
  /\ ColourTypeOf(gen) = 3
  /\ LET hd == HeaderOf(gen)
     IN  hd[9] = 8 /\ hd[11] = 0 /\ hd[12] = 0 /\ hd[13] = 0
  /\ ~inflateSync(IdatOf(gen)).throws
  /\ LET z == inflateSync(IdatOf(gen)).data
         w == readUInt32BE(HeaderOf(gen), 0)
         h == readUInt32BE(HeaderOf(gen), 4)
     IN  /\ Len(z) >= h * (w + 1)
         /\ \A y \in 0..(h - 1) : z[y * (w + 1) + 1] = 0

\* the palette indexes of such a stream, row by row
IndexesOf(d) ==
  LET z == inflateSync(IdatOf(d)).data
      w == readUInt32BE(HeaderOf(d), 0)
      h == readUInt32BE(HeaderOf(d), 4)
  IN  [n \in 1..(w * h) |-> z[((n - 1) \div w) * (w + 1) + 1 + ((n - 1) % w) + 1]]

\* the first part of C21: each index below the number of palette entries
\* expands to its palette entry with the alpha of tRNS or 255, and an index
\* not below it makes the decoder fail
IndexedExpansion ==
  (DecodedIndexed /\ LastChunkOf(gen, "PLTE").ok) =>
    LET plte == LastChunkOf(gen, "PLTE").data
        trns == LastChunkOf(gen, "tRNS")
        idx  == IndexesOf(gen)
        alpha(k) == IF trns.ok /\ k < Len(trns.data) THEN trns.data[k + 1] ELSE 255
    IN  IF \E n \in 1..Len(idx) : idx[n] >= Len(plte) \div 3
        THEN ~parsed.ok
        ELSE /\ parsed.ok
             /\ parsed.data = Concat([n \in 1..Len(idx) |->
                   << plte[3 * idx[n] + 1], plte[3 * idx[n] + 2], plte[3 * idx[n] + 3],
                      alpha(idx[n]) >>])

\* C21 (as stated): a palette index below the number of palette entries
\* expands to that entry with alpha tRNS[k] or 255, an index not below it
\* makes the decoder fail, and the decoder fails for every colour type 3
\* image without a PLTE chunk.  The last does not hold: the palette is looked
\* for only when a pixel is expanded, so an image of no pixels decodes.
C21_AsStated ==
  /\ IndexedExpansion
  /\ (DecodedIndexed /\ ~LastChunkOf(gen, "PLTE").ok) => ~parsed.ok


\* the four bytes of pixel (x, y) of a buffer of the given width
PixelAt(buf, width, x, y) == SubSeq(buf, 4 * (y * width + x) + 1, 4 * (y * width + x) + 4)

\* C22: the shrink-and-center compositor draws the image at 0.8 of its size
\* in the middle: with scaled_w = floor(0.8 width), scaled_h = floor(0.8
\* height), off_x = floor((width - scaled_w) / 2) and off_y likewise, the
\* scaled region lies inside the image, every pixel outside it is the opaque
\* background, and the pixel (off_x + x, off_y + y) inside it is the
\* composite over the background of the source pixel at
\* (min(floor(x / 0.8), width - 1), min(floor(y / 0.8), height - 1)).
C22_ShrinkAndCenter ==
  (pc = "encode" /\ impl = 1) =>
    LET w  == parsed.width
        h  == parsed.height
        sw == (8 * w) \div 10
        sh == (8 * h) \div 10
        ox == (w - sw) \div 2
        oy == (h - sh) \div 2
        bg == BackgroundRGB
        min(a, b) == IF a < b THEN a ELSE b
        over(src) == << Composite(src[1], src[4], bg[1]), Composite(src[2], src[4], bg[2]),
                        Composite(src[3], src[4], bg[3]), 255 >>
    IN  /\ ox >= 0 /\ oy >= 0 /\ ox + sw <= w /\ oy + sh <= h
        /\ Len(flattened) = 4 * w * h
        /\ \A dx \in 0..(w - 1), dy \in 0..(h - 1) :
             PixelAt(flattened, w, dx, dy) =
               IF dx \in ox..(ox + sw - 1) /\ dy \in oy..(oy + sh - 1)
               THEN over(PixelAt(parsed.data, w,
                                 min((10 * (dx - ox)) \div 8, w - 1),
                                 min((10 * (dy - oy)) \div 8, h - 1)))
               ELSE bg \o <<255>>

\* a 6 x 3 image was drawn 4 x 2 one column in from the left: the first column
\* is background, and a pixel inside comes from a source pixel that is
\* neither clear nor opaque and differs from the one at its own place
C22_Witness ==
  /\ pc = "encode" /\ impl = 1
  /\ parsed.width = 6 /\ parsed.height = 3
  /\ PixelAt(flattened, 6, 0, 0) = BackgroundRGB \o <<255>>
  /\ \E dx \in 1..4, dy \in 0..1 :
       LET src == PixelAt(parsed.data, 6, (10 * (dx - 1)) \div 8, (10 * dy) \div 8)
       IN  /\ src[4] \notin {0, 255}
           /\ src # PixelAt(parsed.data, 6, dx, dy)
           /\ PixelAt(flattened, 6, dx, dy)[1] = Composite(src[1], src[4], BackgroundRGB[1])
           /\ PixelAt(flattened, 6, dx, dy) # BackgroundRGB \o <<255>>


(***************************************************************************)
(* The claims about the choice of source, each as a property of            *)
(* SourcesSpec.                                                            *)
(***************************************************************************)

\* source i answered 2xx with a content type of image/... or
\* application/octet-stream
UsableAnswer(i) ==
  /\ results[i].state = "settled"
  /\ ~results[i].answer.threw
  /\ results[i].answer.ok
  /\ results[i].answer.contentType \in {PNG_MIME, "application/octet-stream"}

SentAsClaimed(q) ==
  /\ q.response.status \in {400, 404, 200, 500}
  /\ q.response.status = 400 =>
       q.response = TextResponse(400, "Missing fetch param") /\ q.fetched = NoFetch
  /\ q.response.status = 404 =>
       /\ q.response = TextResponse(404, "Favicon fetch failed")
       /\ q.fetched = NoFetch
       /\ q.domain # CUSTOM_DOMAIN
  /\ q.response.status = 200 =>
       /\ q.fetched # NoFetch
       /\ q.response \in {Processing(q.fetched).flattened, Processing(q.fetched).original}
  /\ q.response.status = 500 =>
       q.response = TextResponse(500, "Server error") /\ q.fetched = NoFetch

\* C24: the request the handler of lines 412-612 has taken up is answered in
\* the end, and exactly once: it is done just when a response has gone out;
\* that response is a 400 (missing fetch param), a 404 (no usable source), a
\* 200 (the data URI of the flattened or of the original image) or a 500 (any
\* other failure); once a response has gone out the handler does nothing more
\* for the request, so no second response follows; and a request whose
\* report post failed is answered like any other.
C24_OneResponse ==
  /\ [](/\ requests[THE_REQUEST].pc = "done"
            <=> requests[THE_REQUEST].response # NoResponse
        /\ requests[THE_REQUEST].pc = "done" => SentAsClaimed(requests[THE_REQUEST]))
  /\ [][requests[THE_REQUEST].response # NoResponse => UNCHANGED vars]_vars
  /\ (requests[THE_REQUEST].pc # "idle") ~> (requests[THE_REQUEST].pc = "done")

\* the three fetches settled, none usably; the report of that was posted and
\* the post failed; the request has its 404
C24_Witness ==
  /\ AllSettled
  /\ requests[THE_REQUEST].pc = "done"
  /\ requests[THE_REQUEST].posted = "failed"
  /\ [event |-> "all_sources_failed", domain |-> requests[THE_REQUEST].domain,
      by |-> THE_REQUEST] \in posts
  /\ requests[THE_REQUEST].response = TextResponse(404, "Favicon fetch failed")

=============================================================================
